---------------------------- MODULE Spec2Model ----------------------------
(***************************************************************************)
(* ShiftLang: hotkey -> copy -> capture -> translate -> paste.             *)
(*                                                                         *)
(* Four parts of the repository are modelled:                              *)
(*   - the Wayland listener (src/shiftlang_wayland.py, class Listener):    *)
(*     one monitor thread per input device calling handle() with no lock,  *)
(*     and one daemon thread per accepted trigger running run();           *)
(*   - the keyboard-hook entry point (src/main.py, translate_text);        *)
(*   - the Wayland pipeline translate() step by step.                      *)
(*   - the direction resolver detect_is_source_language                    *)
(*     (src/shiftlang/language.py) and its copies in the two scripts.      *)
(*                                                                         *)
(* Time is counted in ticks of 0.5 s, so the 1.5 s cooldown is 3 ticks.    *)
(***************************************************************************)
EXTENDS Integers, Sequences, FiniteSets, TLC

VARIABLES
    entry,          \* what runs: "wayland" | "main" | "translate" | "resolver"
    now,            \* time.time(), in ticks
    \* ---- Wayland listener (class Listener) ----
    devs,           \* the devices find_devs() returned (one monitor thread each)
    hotkey,         \* config["hotkey"], as its '+'-separated parts
    hotkey_codes,   \* Listener.hotkey_codes
    held,           \* environment: the keys physically down
    pressed,        \* Listener.pressed
    last_trigger,   \* Listener.last_trigger
    busy,           \* Listener.busy
    pc,             \* pc[d]: where device thread d is inside handle()
    tnow,           \* tnow[d]: handle()'s local `now`
    ev,             \* ev[d]: the event handle() was called with
    running,        \* number of run() threads alive (inside translate())
    \* ---- history (observation only; nothing of the program reads them) ----
    lastAccept,     \* the `now` of the latest accepted activation
    rejHeld,        \* an activation was rejected and the chord is still held
    holdRuns,       \* runs accepted during the current press-and-hold
    \* ---- one pipeline run (main.py translate_text / Wayland translate()) ----
    provider,       \* config["translation_provider"], lower-cased
    is_source,      \* what _detect_is_source_language returns for the selection
    selection,      \* environment: the text selected in the focused application
    clipboard,      \* the system clipboard
    copyInFlight,   \* environment: a copy chord was injected, its copy has not landed
    orig,           \* translate(): orig
    text,           \* translate(): text / translate_text(): text_to_translate
    polls,          \* iterations of the capture loop done
    translated,     \* translated
    callLog,        \* the provider calls of this run, in order
    copied,         \* the copy chord was injected in this run
    pasted,         \* the paste chord was injected in this run
    clipChanged,    \* history: the clipboard content changed after the copy chord
    wrote,          \* history: the clipboard write of this run: "no" | "ok" | "failed"
    failedAt,       \* history: the step of this run that raised, "" when none did
    \* ---- main.py ----
    is_translating, \* _is_translating
    mpc,            \* where translate_text() is
    waits,          \* iterations of the release-wait loop done
    mLast,          \* history: the time of the latest accepted hotkey callback
    \* ---- shiftlang_wayland.py translate() ----
    tpc,            \* where translate() is
    \* ---- the direction resolver, called on its own ----
    impl,           \* which copy of the resolver: "language" | "main" | "wayland"
    source_language,\* config["source_language"]
    sample,         \* the text handed to the resolver, as its code points
    resolved,       \* what the resolver returned, "pending" before the call
    \* ---- one call of a provider wrapper's translate(text) ----
    wrapper,        \* the class of the wrapper object
    arg,            \* the text argument
    wpc,            \* "called" | "request" | "returned" | "raised"
    ret,            \* the value returned
    raisedExc,      \* the exception that left translate(), "" if none
    netCalls,       \* calls the current translate() made to the network
    fields,         \* the attributes of the wrapper object (self.source, ...)
    backend,        \* environment: how the backend answers this object's requests
    first,          \* history: the first translate() call of the object
    \* ---- one call of load_config() ----
    cfgImpl,        \* which copy: "shiftlang.config" | "main" | "wayland"
    cfgFile,        \* what is at CONFIG_PATH
    cfgpc,          \* "called" | "returned" | "raised"
    config,         \* the dict load_config() builds and returns
    saved,          \* history: the arguments of the save_config() call and the
                    \* file it found, <<>> while there was no call
    \* ---- start-up of the listener processes ----
    inputs,         \* environment: what each /dev/input/event* node is
    proc,           \* per process: "none" | "listening" | "exited"
    script,         \* per process: the script it runs, "wayland" | "main"
    status,         \* per process: its exit status, -1 while it has none
    monitors,       \* per process: the nodes that have a monitor thread
    out,            \* per process: the messages it printed
    press,          \* environment: the latest physical key press
    handled,        \* per process: the handle() calls that press led to
    \* ---- read errors of the input devices ----
    errors,         \* history: the devices whose read_loop() raised
    errAt,          \* history: the time of the latest read error
    \* ---- the provider tables and the translator factory ----
    pconfig,        \* the config dict handed to create_translators()
    created,        \* what create_translators(config) returned
    queried         \* what the provider queries returned for the configured name

listenerVars == <<devs, hotkey, hotkey_codes, held, pressed, last_trigger, busy,
                  pc, tnow, ev, running, lastAccept, rejHeld, holdRuns>>
pipeVars == <<provider, is_source, selection, clipboard, copyInFlight, orig, text,
              polls, translated, callLog, copied, pasted, clipChanged, wrote,
              failedAt>>
mainVars == <<is_translating, mpc, waits, mLast>>
resolverVars == <<impl, source_language, sample, resolved>>
wrapperVars == <<wrapper, arg, wpc, ret, raisedExc, netCalls, fields, backend, first>>
configVars == <<cfgImpl, cfgFile, cfgpc, config, saved>>
startVars == <<inputs, proc, script, status, monitors, out, press, handled>>
deviceVars == <<errors, errAt>>
providerVars == <<pconfig, created, queried>>
otherVars == <<wrapperVars, configVars, startVars, deviceVars, providerVars>>
vars == <<entry, now, listenerVars, pipeVars, mainVars, tpc, resolverVars, otherVars>>

----------------------------------------------------------------------------
(* Python values *)

\* None, and a str as the sequence of its characters
PyNone == [type |-> "NoneType", s |-> <<>>]
PyStr(s) == [type |-> "str", s |-> s]

\* how a call ends
Returns(v) == [outcome |-> "return", value |-> v, exc |-> ""]
Raises(e) == [outcome |-> "raise", value |-> PyNone, exc |-> e]

\* the attributes __init__ sets: OpenRouterTranslator("hebrew", "english"),
\* TranslatorsWrapper("bing", "he", "en"), MyMemoryWrapper("he", "en")
NewWrapper(w) ==
    IF w = "OpenRouterTranslator"
    THEN [source |-> "hebrew", target |-> "english", api_key |-> "",
          model |-> "openrouter/free", provider |-> ""]
    ELSE [source |-> "he", target |-> "en", api_key |-> "", model |-> "",
          provider |-> IF w = "TranslatorsWrapper" THEN "bing" ELSE ""]

\* an object no call was made on, and a backend no request went to
FreshWrapper(w) ==
    /\ fields = NewWrapper(w)
    /\ backend = [kind |-> "none"]
    /\ first = [done |-> FALSE, arg |-> PyNone, outcome |-> "", ret |-> PyNone,
                exc |-> ""]

\* no wrapper call
IdleWrapper ==
    /\ wrapper = "OpenRouterTranslator"
    /\ arg = PyNone
    /\ wpc = "returned"
    /\ ret = PyNone
    /\ raisedExc = ""
    /\ netCalls = 0
    /\ FreshWrapper(wrapper)

\* no file at CONFIG_PATH
NoFile == [exists |-> FALSE, readable |-> FALSE, json |-> FALSE, t |-> "null",
           obj |-> <<>>, items |-> <<>>]

\* no load_config() call
IdleConfig ==
    /\ cfgImpl = "wayland"
    /\ cfgFile = NoFile
    /\ cfgpc = "returned"
    /\ config = <<>>
    /\ saved = <<>>

Nodes == {"event0", "event1"}
Procs == {"p1", "p2"}

\* a node path that does not exist
AbsentNode == [present |-> FALSE, readable |-> FALSE, ev_key |-> FALSE,
               phys |-> "", keys |-> {}]

\* no process started
IdleStart ==
    /\ inputs = [n \in Nodes |-> AbsentNode]
    /\ proc = [p \in Procs |-> "none"]
    /\ script = [p \in Procs |-> "wayland"]
    /\ status = [p \in Procs |-> -1]
    /\ monitors = [p \in Procs |-> {}]
    /\ out = [p \in Procs |-> {}]
    /\ press = [phys |-> "", key |-> ""]
    /\ handled = [p \in Procs |-> 0]

\* the parts that have an entry point of their own, when another one runs
\* no factory call
IdleProvider ==
    /\ pconfig = <<>>
    /\ created = [done |-> FALSE]
    /\ queried = [done |-> FALSE]

IdleOther ==
    IdleWrapper /\ IdleConfig /\ IdleStart /\ errors = {} /\ errAt = 0 /\ IdleProvider

----------------------------------------------------------------------------
(* Bounds and constants *)

\* `now - self.last_trigger < 1.5`: 1.5 s in ticks of 0.5 s
CooldownTicks == 3
\* the clock is observed for this many ticks after start-up
Horizon == 3
MaxTime == CooldownTicks + Horizon

Devices == {"d1", "d2"}

KEY_LEFTCTRL == "KEY_LEFTCTRL"
KEY_RIGHTCTRL == "KEY_RIGHTCTRL"
KEY_LEFTSHIFT == "KEY_LEFTSHIFT"
KEY_RIGHTSHIFT == "KEY_RIGHTSHIFT"
KEY_LEFTALT == "KEY_LEFTALT"
KEY_RIGHTALT == "KEY_RIGHTALT"
KEY_LEFTMETA == "KEY_LEFTMETA"
KEY_RIGHTMETA == "KEY_RIGHTMETA"

\* the keys of each keyboard in the environment
DevKeys(d) ==
    IF d = "d1" THEN {KEY_LEFTALT, "KEY_G", "KEY_ESC"}
                ELSE {KEY_RIGHTALT, "KEY_X"}

\* the hotkey strings the configuration holds in the model
\* ("alt+g"; "esc" is what install.py --esc writes)
Hotkeys == { <<"alt", "g">>, <<"esc">> }

Range(s) == {s[i] : i \in 1..Len(s)}

----------------------------------------------------------------------------
(* parse_hotkey and check_hotkey *)

\* key_map of parse_hotkey
key_map ==
    [p \in {"ctrl", "control", "shift", "alt", "meta", "cmd", "command", "win",
            "q", "g", "t", "a", "c", "v", "x", "z"} |->
        CASE p \in {"ctrl", "control"} -> <<KEY_LEFTCTRL, KEY_RIGHTCTRL>>
          [] p = "shift" -> <<KEY_LEFTSHIFT, KEY_RIGHTSHIFT>>
          [] p = "alt" -> <<KEY_LEFTALT, KEY_RIGHTALT>>
          [] p \in {"meta", "cmd", "command", "win"} -> <<KEY_LEFTMETA, KEY_RIGHTMETA>>
          [] p = "q" -> <<"KEY_Q">>
          [] p = "g" -> <<"KEY_G">>
          [] p = "t" -> <<"KEY_T">>
          [] p = "a" -> <<"KEY_A">>
          [] p = "c" -> <<"KEY_C">>
          [] p = "v" -> <<"KEY_V">>
          [] p = "x" -> <<"KEY_X">>
          [] p = "z" -> <<"KEY_Z">>]

\* `len(part) == 1 and part.isalpha()` with getattr(ecodes, "KEY_" + upper):
\* the single letters outside key_map that occur in the model
SingleLetter == [p \in {"b", "k"} |-> IF p = "b" THEN "KEY_B" ELSE "KEY_K"]

RECURSIVE parse_from(_, _)
parse_from(parts, i) ==
    IF i > Len(parts) THEN <<>>
    ELSE LET part == parts[i]
             rest == parse_from(parts, i + 1)
         IN  IF part \in DOMAIN key_map THEN <<key_map[part]>> \o rest
             ELSE IF part \in DOMAIN SingleLetter THEN <<(<<SingleLetter[part]>>)>> \o rest
             ELSE rest

parse_hotkey(parts) == parse_from(parts, 1)

\* mutant of any(): all() -- every code of the group must be pressed
all_pressed(pressed_codes, code_tuple) ==
    \A i \in 1..Len(code_tuple) : code_tuple[i] \in pressed_codes

\* any(code in pressed_codes for code in code_tuple)
any_pressed(pressed_codes, code_tuple) ==
    \E i \in 1..Len(code_tuple) : code_tuple[i] \in pressed_codes

RECURSIVE check_from(_, _, _)
check_from(pressed_codes, codes, i) ==
    IF i > Len(codes) THEN TRUE
    ELSE IF ~any_pressed(pressed_codes, codes[i]) THEN FALSE
    ELSE check_from(pressed_codes, codes, i + 1)

check_hotkey(pressed_codes, codes) == check_from(pressed_codes, codes, 1)

----------------------------------------------------------------------------
(* Environment of the listener: physical keys *)

\* the physical key each part of the hotkey string names (what the user presses)
PartKeys(part) ==
    IF part \in DOMAIN key_map THEN Range(key_map[part])
    ELSE IF part \in DOMAIN SingleLetter THEN {SingleLetter[part]}
    ELSE IF part = "esc" THEN {"KEY_ESC"}
    ELSE {}

\* the user holds the chord: one key of every part of the hotkey string is down
ChordHeld(h, keys) == \A i \in 1..Len(h) : PartKeys(h[i]) \cap keys # {}

ChordKeys(h) == UNION {PartKeys(h[i]) : i \in 1..Len(h)}

\* the keys that produce events in the model: the chord's and one unrelated key
EventKeys(h, d) == DevKeys(d) \cap (ChordKeys(h) \cup {"KEY_X"})

NoEvent == [key |-> "none", keystate |-> "none"]

----------------------------------------------------------------------------
(* Listener.__init__ and Listener.start *)

InitListener ==
    /\ devs \in {{"d1"}, {"d1", "d2"}}
    /\ hotkey \in Hotkeys
    /\ hotkey_codes = parse_hotkey(hotkey)
    /\ held = {}
    /\ pressed = {}
    /\ last_trigger = 0
    /\ busy = FALSE
    /\ pc = [d \in Devices |-> "read"]
    /\ tnow = [d \in Devices |-> 0]
    /\ ev = [d \in Devices |-> NoEvent]
    /\ running = 0
    /\ lastAccept = 0
    /\ rejHeld = FALSE
    /\ holdRuns = 0

\* the listener before start(), for the entry points that have none
IdleListener ==
    /\ devs = {}
    /\ hotkey = <<"alt", "g">>
    /\ hotkey_codes = parse_hotkey(hotkey)
    /\ held = {}
    /\ pressed = {}
    /\ last_trigger = 0
    /\ busy = FALSE
    /\ pc = [d \in Devices |-> "read"]
    /\ tnow = [d \in Devices |-> 0]
    /\ ev = [d \in Devices |-> NoEvent]
    /\ running = 0
    /\ lastAccept = 0
    /\ rejHeld = FALSE
    /\ holdRuns = 0

----------------------------------------------------------------------------
(* The clock *)

Tick ==
    /\ now < MaxTime
    /\ now' = now + 1
    /\ UNCHANGED <<otherVars, entry, resolverVars, listenerVars, pipeVars, mainVars, tpc>>

----------------------------------------------------------------------------
(* Listener.handle.  No lock is held anywhere in it: the device threads    *)
(* interleave between the guard test (line 338) and the writes that follow *)
(* it (lines 340-350), so handle() is three steps per thread.              *)

\* variant of handle() that returns at once while a run is in flight
\* (`if self.busy: return` before the update of the pressed set)
UpdatePressedUnlessBusy(p, k, ks) ==
    IF busy THEN p
    ELSE IF ks = "down" THEN p \cup {k}
    ELSE IF ks = "up" THEN p \ {k}
    ELSE p

\* variant of lines 330-333 that adds the scancode on every event that is
\* not a key-up, key-repeat included
UpdatePressedHoldAdds(p, k, ks) ==
    IF ks = "up" THEN p \ {k} ELSE p \cup {k}

\* the pressed set after lines 330-333
UpdatePressed(p, k, ks) ==
    IF ks = "down" THEN p \cup {k}
    ELSE IF ks = "up" THEN p \ {k}
    ELSE p

\* the physical keys after the event (environment)
UpdateHeld(h, k, ks) ==
    IF ks = "down" THEN h \cup {k}
    ELSE IF ks = "up" THEN h \ {k}
    ELSE h

\* mutants of the guard test: the cooldown only counts while a run is active;
\* an activation exactly 1.5 s after the last one is still rejected
GuardRejectsOnlyWhenBusy(t, last, b) == (t - last < CooldownTicks) /\ b
GuardRejectsAtBoundary(t, last, b) == (t - last <= CooldownTicks) \/ b

\* the guard test of line 338 on the values it reads
GuardRejects(t, last, b) == (t - last < CooldownTicks) \/ b

\* monitor() hands the next EV_KEY event of device d to handle(): lines 326-336,
\* the update of the pressed set and the chord check
Handle(d) ==
    /\ entry = "wayland"
    /\ d \in devs
    /\ pc[d] = "read"
    /\ \E k \in EventKeys(hotkey, d), ks \in {"down", "up", "hold"} :
        /\ IF ks = "down" THEN k \notin held ELSE k \in held
        /\ LET heldNext == UpdateHeld(held, k, ks)
               pressedNext == UpdatePressed(pressed, k, ks)
               active == check_hotkey(pressedNext, hotkey_codes)
               sameHold == ChordHeld(hotkey, held) /\ ChordHeld(hotkey, heldNext)
           IN  /\ held' = heldNext
               /\ pressed' = pressedNext
               /\ pc' = [pc EXCEPT ![d] = IF active THEN "guard" ELSE "read"]
               /\ ev' = [ev EXCEPT ![d] = IF active THEN [key |-> k, keystate |-> ks]
                                          ELSE NoEvent]
               /\ rejHeld' = (rejHeld /\ ChordHeld(hotkey, heldNext))
               /\ holdRuns' = IF sameHold THEN holdRuns ELSE 0
    /\ UNCHANGED <<otherVars, pipeVars, mainVars, tpc, entry, resolverVars, now, devs, hotkey, hotkey_codes, last_trigger, busy,
                   tnow, running, lastAccept>>

\* variant of the rejected branch that restarts the cooldown at the
\* rejected activation
last_trigger_extended(last, t) == t

\* last_trigger after `return` at line 339: the rejected branch assigns nothing
last_trigger_rejected(last, t) == last

\* lines 337-339: now = time.time(); if now - last_trigger < 1.5 or busy: return
Guard(d) ==
    /\ entry = "wayland"
    /\ pc[d] = "guard"
    /\ IF GuardRejects(now, last_trigger, busy)
       THEN /\ pc' = [pc EXCEPT ![d] = "read"]
            /\ ev' = [ev EXCEPT ![d] = NoEvent]
            /\ rejHeld' = ChordHeld(hotkey, held)
            /\ last_trigger' = last_trigger_rejected(last_trigger, now)
            /\ UNCHANGED <<tnow, lastAccept, holdRuns>>
       ELSE /\ pc' = [pc EXCEPT ![d] = "accept"]
            /\ tnow' = [tnow EXCEPT ![d] = now]
            /\ lastAccept' = now
            /\ holdRuns' = IF ChordHeld(hotkey, held) THEN holdRuns + 1 ELSE holdRuns
            /\ UNCHANGED <<ev, rejHeld, last_trigger>>
    /\ UNCHANGED <<otherVars, pipeVars, mainVars, tpc, entry, resolverVars, now, devs, hotkey, hotkey_codes, held, pressed,
                   busy, running>>

\* an event whose type is not EV_KEY: lines 326-327
NonKeyEvent(d) ==
    /\ entry = "wayland"
    /\ d \in devs
    /\ pc[d] = "read"
    /\ UNCHANGED vars

\* lines 340-350: last_trigger = now; busy = True; pressed.clear();
\* threading.Thread(target=run, daemon=True).start()
Accept(d) ==
    /\ entry = "wayland"
    /\ pc[d] = "accept"
    /\ last_trigger' = tnow[d]
    /\ busy' = TRUE
    /\ pressed' = {}
    /\ running' = running + 1
    /\ pc' = [pc EXCEPT ![d] = "read"]
    /\ tnow' = [tnow EXCEPT ![d] = 0]
    /\ ev' = [ev EXCEPT ![d] = NoEvent]
    /\ UNCHANGED <<otherVars, pipeVars, mainVars, tpc, entry, resolverVars, now, devs, hotkey, hotkey_codes, held, lastAccept,
                   rejHeld, holdRuns>>

----------------------------------------------------------------------------
(* Listener.monitor: try: for ev in d.read_loop(): self.handle(ev)          *)
(* except Exception: print(...)   (lines 352-358)                           *)

\* variant of monitor() where a read error is not caught per thread and
\* ends every monitor
AllMonitorsEnd(pcs, d) == [x \in DOMAIN pcs |-> "ended"]

\* the device threads after read_loop() of device d raised: the except
\* clause prints and monitor() returns, which ends that thread
MonitorsAfterError(pcs, d) == [pcs EXCEPT ![d] = "ended"]

\* read_loop() of device d raises (the device was unplugged, OSError)
DeviceError(d) ==
    /\ entry = "wayland"
    /\ d \in devs
    /\ pc[d] = "read"
    /\ pc' = MonitorsAfterError(pc, d)
    /\ errors' = errors \cup {d}
    /\ errAt' = now
    /\ UNCHANGED <<wrapperVars, configVars, startVars, providerVars, pipeVars, mainVars, tpc, entry,
                   resolverVars, now, devs, hotkey, hotkey_codes, held, pressed,
                   last_trigger, busy, tnow, ev, running, lastAccept, rejHeld,
                   holdRuns>>

----------------------------------------------------------------------------
(* run(): try: translate() finally: self.busy = False   (lines 344-348) *)

\* mutant of run(): busy is reset after translate() without try/finally, so
\* an exception leaving translate() skips the reset
RunReleaseNoFinally(outcome) == (outcome = "raised")

\* what the finally clause leaves in busy after translate() ended by `outcome`
RunRelease(outcome) == FALSE

\* translate() ends, by returning (paste done, or "No text selected") or by
\* raising (get_clip/send_keys outside its try block); then the finally clause
RunEnds(outcome) ==
    /\ entry = "wayland"
    /\ running > 0
    /\ running' = running - 1
    /\ busy' = RunRelease(outcome)
    /\ UNCHANGED <<otherVars, pipeVars, mainVars, tpc, entry, resolverVars, now, devs, hotkey, hotkey_codes, held, pressed,
                   last_trigger, pc, tnow, ev, lastAccept, rejHeld, holdRuns>>

----------------------------------------------------------------------------
(* One pipeline run: texts, the clipboard and the provider stage            *)

\* the texts of the model: nothing, whitespace only, what the clipboard held
\* before the trigger, the selected text, a translation of it
BlankTexts == {"", "ws"}
Selections == {"", "sel", "ws"}
InitialClipboards == {"", "old"}
Providers == {"google", "openrouter"}

\* str.strip()
Strip(t) == IF t = "ws" THEN "" ELSE t

\* `translated.strip().lower() == text.strip().lower()`
SameText(a, b) == Strip(a) = Strip(b)

\* what one provider call may return for text t: a translation, t itself
\* (OpenRouterTranslator.translate returns the input on a request error), or
\* nothing (the empty result that `if translated and ...` tests for; the
\* answer of GoogleTranslator to a blank text)
ProviderResults(t) == {"tr", t, ""}

\* the class of the translator object a call goes to (_create_translators,
\* and the GoogleTranslator(source="auto", ...) built in the auto branch)
TranslatorClass(prov, call) ==
    IF call \in {"auto_to_target", "auto_to_source"} THEN "GoogleTranslator"
    ELSE IF prov = "openrouter" THEN "OpenRouterTranslator"
    ELSE "GoogleTranslator"

\* variant of the direction test that takes None for False (`if is_source:`
\* tested before `is None`)
FirstCallNoneAsFalse(prov, src) ==
    IF prov = "openrouter" THEN "forward"
    ELSE IF src = "true" THEN "forward"
    ELSE "reverse"

\* the translator the first provider call uses (main.py 336-367, wayland 215-241)
FirstCall(prov, src) ==
    IF prov = "openrouter" THEN "forward"
    ELSE IF src = "none" THEN "auto_to_target"
    ELSE IF src = "true" THEN "forward"
    ELSE "reverse"

\* whether a second call follows the first result (main.py 341, 354-357)
SecondCallNeeded(prov, src, result, t) ==
    IF prov = "openrouter" THEN SameText(result, t)
    ELSE IF src = "none" THEN result # "" /\ SameText(result, t)
    ELSE FALSE

SecondCall(prov) == IF prov = "openrouter" THEN "reverse" ELSE "auto_to_source"

\* variant of the retry written as a loop (`while` for `if`): the opposite
\* direction is called again as long as the result equals the input
AfterSecondCallRetry(result, t) == IF SameText(result, t) THEN "call2" ELSE "write"

\* where the run goes after the second call: its result is kept whatever it
\* is (main.py 342, 361; wayland 221, 235)
AfterSecondCall(result, t) == "write"

\* the per-run variables before a run
IdleRun ==
    /\ copyInFlight = FALSE
    /\ orig = ""
    /\ text = ""
    /\ polls = 0
    /\ translated = ""
    /\ callLog = <<>>
    /\ copied = FALSE
    /\ pasted = FALSE
    /\ clipChanged = FALSE
    /\ wrote = "no"
    /\ failedAt = ""

IdlePipe ==
    /\ provider = "google"
    /\ is_source = "none"
    /\ selection = ""
    /\ clipboard = ""
    /\ IdleRun

InitPipe ==
    /\ provider \in Providers
    /\ is_source \in {"true", "false", "none"}
    /\ selection \in Selections
    /\ clipboard \in InitialClipboards
    /\ IdleRun

IdleMain ==
    /\ is_translating = FALSE
    /\ mpc = "idle"
    /\ waits = 0
    /\ mLast = 0

\* environment: the focused application serves the injected copy chord by
\* putting its selection on the clipboard
CopyLands ==
    /\ entry \in {"main", "translate"}
    /\ copyInFlight
    /\ clipboard' = selection
    /\ copyInFlight' = FALSE
    /\ clipChanged' = (clipChanged \/ clipboard # selection)
    /\ UNCHANGED <<otherVars, entry, resolverVars, now, listenerVars, mainVars, tpc, provider, is_source,
                   selection, wrote, failedAt, orig, text, polls, translated, callLog, copied, pasted>>

----------------------------------------------------------------------------
(* main.py: translate_text, registered with keyboard.add_hotkey *)

\* `for _ in range(20)` of the release wait, `for attempt in range(10)` of the capture
MainWaits == 20
MainPolls == 10

\* lines 295-300: the hotkey callback; a call while a run is active returns at once
M_Callback ==
    /\ entry = "main"
    /\ IF is_translating
       THEN UNCHANGED vars
       ELSE /\ mpc = "idle"
            /\ is_translating' = TRUE
            /\ mpc' = "wait_release"
            /\ waits' = 0
            /\ mLast' = now
            /\ copyInFlight' = FALSE
            /\ orig' = ""
            /\ text' = ""
            /\ polls' = 0
            /\ translated' = ""
            /\ callLog' = <<>>
            /\ copied' = FALSE
            /\ pasted' = FALSE
            /\ clipChanged' = FALSE
            /\ wrote' = "no"
            /\ failedAt' = ""
            /\ UNCHANGED <<otherVars, entry, resolverVars, now, listenerVars, tpc, provider, is_source,
                           selection, clipboard>>

\* lines 303-307: wait until the hotkey's modifier keys are released
M_WaitRelease ==
    /\ entry = "main"
    /\ mpc = "wait_release"
    /\ \E modifierDown \in BOOLEAN :
        IF waits < MainWaits /\ modifierDown
        THEN waits' = waits + 1 /\ mpc' = mpc
        ELSE waits' = 0 /\ mpc' = "clear"
    /\ UNCHANGED <<otherVars, entry, resolverVars, now, listenerVars, tpc, pipeVars, is_translating, mLast>>

\* lines 310-311: pyperclip.copy("")
M_ClearClipboard ==
    /\ entry = "main"
    /\ mpc = "clear"
    /\ clipboard' = ""
    /\ mpc' = "copy"
    /\ UNCHANGED <<otherVars, entry, resolverVars, now, listenerVars, tpc, provider, is_source, selection, wrote, failedAt,
                   copyInFlight, orig, text, polls, translated, callLog, copied,
                   pasted, clipChanged, is_translating, waits, mLast>>

\* line 313: keyboard.press_and_release(_COPY_KEYS)
M_InjectCopy ==
    /\ entry = "main"
    /\ mpc = "copy"
    /\ copied' = TRUE
    /\ copyInFlight' = (selection # "")
    /\ mpc' = "poll"
    /\ UNCHANGED <<otherVars, entry, resolverVars, now, listenerVars, tpc, provider, is_source, selection, wrote, failedAt,
                   clipboard, orig, text, polls, translated, callLog, pasted,
                   clipChanged, is_translating, waits, mLast>>

\* variant of the loop's exit test with the condition inverted
main_captured_inverted(got) == Strip(got) = ""

\* line 320: `if text_to_translate.strip(): break`
main_captured(got) == Strip(got) # ""

\* lines 316-321: one iteration of the capture loop
M_Poll ==
    /\ entry = "main"
    /\ mpc = "poll"
    /\ text' = clipboard
    /\ polls' = polls + 1
    /\ mpc' = IF main_captured(clipboard) \/ polls + 1 = MainPolls THEN "check" ELSE "poll"
    /\ UNCHANGED <<otherVars, entry, resolverVars, now, listenerVars, tpc, provider, is_source, selection, wrote, failedAt,
                   clipboard, copyInFlight, orig, translated, callLog, copied,
                   pasted, clipChanged, is_translating, waits, mLast>>

\* variant of the abort test that never aborts
main_no_text_never(t) == FALSE

\* line 323: `not text_to_translate.strip()`
main_no_text(t) == Strip(t) = ""

\* lines 323-334: `if not text_to_translate.strip(): return`, else go on to
\* the provider stage (exclude_current_clipboard_from_history re-sets the same text)
M_Check ==
    /\ entry = "main"
    /\ mpc = "check"
    /\ mpc' = IF main_no_text(text) THEN "finally" ELSE "call1"
    /\ UNCHANGED <<otherVars, entry, resolverVars, now, listenerVars, tpc, pipeVars, is_translating, waits, mLast>>

\* lines 336-367: the first provider call
M_Call1 ==
    /\ entry = "main"
    /\ mpc = "call1"
    /\ callLog' = Append(callLog, FirstCall(provider, is_source))
    /\ \E result \in ProviderResults(text) :
        /\ translated' = result
        /\ mpc' = IF SecondCallNeeded(provider, is_source, result, text)
                  THEN "call2" ELSE "write"
    /\ UNCHANGED <<otherVars, entry, resolverVars, now, listenerVars, tpc, provider, is_source, selection, wrote, failedAt,
                   clipboard, copyInFlight, orig, text, polls, copied, pasted,
                   clipChanged, is_translating, waits, mLast>>

\* lines 342, 358-361: the call in the opposite direction
M_Call2 ==
    /\ entry = "main"
    /\ mpc = "call2"
    /\ callLog' = Append(callLog, SecondCall(provider))
    /\ \E result \in ProviderResults(text) :
        /\ translated' = result
        /\ mpc' = AfterSecondCall(result, text)
    /\ UNCHANGED <<otherVars, entry, resolverVars, now, listenerVars, tpc, provider, is_source, selection, wrote, failedAt,
                   clipboard, copyInFlight, orig, text, polls, copied, pasted,
                   clipChanged, is_translating, waits, mLast>>

\* lines 372-376: copy_to_clipboard_no_history(translated), which reports failure
M_Write ==
    /\ entry = "main"
    /\ mpc = "write"
    /\ \E ok \in BOOLEAN :
        IF ok THEN clipboard' = translated /\ wrote' = "ok" /\ mpc' = "paste"
        ELSE clipboard' = clipboard /\ wrote' = "failed" /\ mpc' = "finally"
    /\ UNCHANGED <<otherVars, entry, resolverVars, now, listenerVars, tpc, provider, is_source, selection, failedAt,
                   copyInFlight, orig, text, polls, translated, callLog, copied,
                   pasted, clipChanged, is_translating, waits, mLast>>

\* lines 373-374: keyboard.press_and_release(_PASTE_KEYS)
M_Paste ==
    /\ entry = "main"
    /\ mpc = "paste"
    /\ pasted' = TRUE
    /\ mpc' = "finally"
    /\ UNCHANGED <<otherVars, entry, resolverVars, now, listenerVars, tpc, provider, is_source, selection, wrote, failedAt,
                   clipboard, copyInFlight, orig, text, polls, translated, callLog,
                   copied, clipChanged, is_translating, waits, mLast>>

\* a statement of the try block raises (keyboard, pyperclip or the provider)
M_Raise ==
    /\ entry = "main"
    /\ mpc \in {"wait_release", "clear", "copy", "poll", "call1", "call2", "paste"}
    /\ mpc' = "except"
    /\ failedAt' = mpc
    /\ UNCHANGED <<otherVars, entry, resolverVars, now, listenerVars, tpc, is_translating, waits, mLast,
                   provider, is_source, selection, clipboard,
                   copyInFlight, orig, text, polls, translated, callLog, copied,
                   pasted, clipChanged, wrote>>

\* lines 378-379: except Exception: print
M_Except ==
    /\ entry = "main"
    /\ mpc = "except"
    /\ mpc' = "finally"
    /\ UNCHANGED <<otherVars, entry, resolverVars, now, listenerVars, tpc, pipeVars, is_translating, waits, mLast>>

\* lines 380-381: finally: _is_translating = False
M_Finally ==
    /\ entry = "main"
    /\ mpc = "finally"
    /\ is_translating' = FALSE
    /\ mpc' = "idle"
    /\ copyInFlight' = FALSE
    /\ UNCHANGED <<otherVars, entry, resolverVars, now, listenerVars, tpc, provider, is_source, selection, wrote, failedAt,
                   clipboard, orig, text, polls, translated, callLog, copied, pasted,
                   clipChanged, waits, mLast>>

\* the steps of a translate_text() call after the callback accepted
MainRunStep ==
    \/ M_WaitRelease
    \/ M_ClearClipboard
    \/ M_InjectCopy
    \/ M_Poll
    \/ M_Check
    \/ M_Call1
    \/ M_Call2
    \/ M_Write
    \/ M_Paste
    \/ M_Except
    \/ M_Finally

----------------------------------------------------------------------------
(* shiftlang_wayland.py: translate(), the body of one run() thread *)

\* `for _ in range(20)` of the capture loop
WaylandPolls == 20

\* get_clip(): wl-paste's output; wl-paste exits non-zero when nothing is
\* copied, and get_clip then returns ""
get_clip == IF clipboard = "" THEN "" ELSE clipboard

\* line 192: orig = get_clip()
T_GetOrig ==
    /\ entry = "translate"
    /\ tpc = "start"
    /\ orig' = get_clip
    /\ tpc' = "copy"
    /\ UNCHANGED <<otherVars, entry, resolverVars, now, listenerVars, mainVars, provider, is_source, selection, wrote, failedAt,
                   clipboard, copyInFlight, text, polls, translated, callLog, copied,
                   pasted, clipChanged>>

\* line 193: send_keys(_COPY_KEYS)
T_InjectCopy ==
    /\ entry = "translate"
    /\ tpc = "copy"
    /\ copied' = TRUE
    /\ copyInFlight' = (selection # "")
    /\ tpc' = "poll"
    /\ UNCHANGED <<otherVars, entry, resolverVars, now, listenerVars, mainVars, provider, is_source, selection, wrote, failedAt,
                   clipboard, orig, text, polls, translated, callLog, pasted,
                   clipChanged>>

\* line 201: `if text and text != orig: break`
captured(got, previous) == got # "" /\ got # previous

\* line 204: `not text`
no_text(t) == t = ""

\* lines 198-202: one iteration of the capture loop
T_Poll ==
    /\ entry = "translate"
    /\ tpc = "poll"
    /\ text' = get_clip
    /\ tpc' = IF captured(get_clip, orig) \/ polls + 1 = WaylandPolls
              THEN "check" ELSE "poll"
    /\ polls' = polls + 1
    /\ UNCHANGED <<otherVars, entry, resolverVars, now, listenerVars, mainVars, provider, is_source, selection, wrote, failedAt,
                   clipboard, copyInFlight, orig, translated, callLog, copied,
                   pasted, clipChanged>>

\* lines 204-206: `if not text: return`
T_Check ==
    /\ entry = "translate"
    /\ tpc = "check"
    /\ tpc' = IF no_text(text) THEN "returned" ELSE "call1"
    /\ UNCHANGED <<otherVars, entry, resolverVars, now, listenerVars, mainVars, pipeVars>>

\* lines 215-241: the first provider call
T_Call1 ==
    /\ entry = "translate"
    /\ tpc = "call1"
    /\ callLog' = Append(callLog, FirstCall(provider, is_source))
    /\ \E result \in ProviderResults(text) :
        /\ translated' = result
        /\ tpc' = IF SecondCallNeeded(provider, is_source, result, text)
                  THEN "call2" ELSE "write"
    /\ UNCHANGED <<otherVars, entry, resolverVars, now, listenerVars, mainVars, provider, is_source, selection, wrote, failedAt,
                   clipboard, copyInFlight, orig, text, polls, copied, pasted,
                   clipChanged>>

\* lines 221, 232-235: the call in the opposite direction
T_Call2 ==
    /\ entry = "translate"
    /\ tpc = "call2"
    /\ callLog' = Append(callLog, SecondCall(provider))
    /\ \E result \in ProviderResults(text) :
        /\ translated' = result
        /\ tpc' = AfterSecondCall(result, text)
    /\ UNCHANGED <<otherVars, entry, resolverVars, now, listenerVars, mainVars, provider, is_source, selection, wrote, failedAt,
                   clipboard, copyInFlight, orig, text, polls, copied, pasted,
                   clipChanged>>

\* lines 246-247: set_clip(translated), which catches its own errors and
\* returns nothing
T_Write ==
    /\ entry = "translate"
    /\ tpc = "write"
    /\ \E ok \in BOOLEAN :
        /\ clipboard' = IF ok THEN translated ELSE clipboard
        /\ wrote' = IF ok THEN "ok" ELSE "failed"
    /\ tpc' = "paste"
    /\ UNCHANGED <<otherVars, entry, resolverVars, now, listenerVars, mainVars, provider, is_source, selection, failedAt,
                   copyInFlight, orig, text, polls, translated, callLog, copied,
                   pasted, clipChanged>>

\* lines 248-249: send_keys(_PASTE_KEYS)
T_Paste ==
    /\ entry = "translate"
    /\ tpc = "paste"
    /\ pasted' = TRUE
    /\ tpc' = "returned"
    /\ UNCHANGED <<otherVars, entry, resolverVars, now, listenerVars, mainVars, provider, is_source, selection, wrote, failedAt,
                   clipboard, copyInFlight, orig, text, polls, translated, callLog,
                   copied, clipChanged>>

\* get_clip or send_keys raises before the try block (wl-paste or wtype cannot
\* be run): the exception leaves translate()
T_Raise ==
    /\ entry = "translate"
    /\ tpc \in {"start", "copy", "poll"}
    /\ tpc' = "raised"
    /\ failedAt' = tpc
    /\ UNCHANGED <<otherVars, entry, resolverVars, now, listenerVars, mainVars,
                   provider, is_source, selection, clipboard,
                   copyInFlight, orig, text, polls, translated, callLog, copied,
                   pasted, clipChanged, wrote>>

\* lines 250-251: an exception inside the try block is printed, translate() returns
T_Caught ==
    /\ entry = "translate"
    /\ tpc \in {"call1", "call2", "paste"}
    /\ tpc' = "returned"
    /\ failedAt' = tpc
    /\ UNCHANGED <<otherVars, entry, resolverVars, now, listenerVars, mainVars,
                   provider, is_source, selection, clipboard,
                   copyInFlight, orig, text, polls, translated, callLog, copied,
                   pasted, clipChanged, wrote>>

----------------------------------------------------------------------------
(* The direction resolver: detect_is_source_language (shiftlang/language.py) *)
(* and its copies _detect_is_source_language in main.py and                 *)
(* shiftlang_wayland.py.  A Python str is the sequence of its code points.  *)
(* A \uXXXX escape takes exactly four hex digits, so the literal            *)
(* \u10480 is the two characters U+1048 and "0".                            *)

\* the code points of the model, by script
LatinPoints == {104}            \* "h"
HebrewPoints == {1488}          \* U+05D0
CopticPoints == {11392}         \* U+2C80
MyanmarPoints == {4169}         \* U+1049
OsmanyaPoints == {66688}        \* U+10480
LycianPoints == {66176}         \* U+10280
CodePoints ==
    LatinPoints \cup HebrewPoints \cup CopticPoints \cup MyanmarPoints
        \cup OsmanyaPoints \cup LycianPoints

\* config["source_language"] values of the model
SourceLanguages == {"hebrew", "Hebrew", "iw", "coptic", "osmanya", "lycian", "spanish", "es"}

\* str.lower()
Lower(name) == IF name = "Hebrew" THEN "hebrew" ELSE name

\* CODE_TO_NAME.get(src, src)
CODE_TO_NAME(src) ==
    CASE src = "iw" -> "hebrew"
      [] src = "es" -> "spanish"
      [] OTHER -> src

\* what `for lo, hi in ranges` gets from one element of a range list: the two
\* members of a tuple, or the characters of a str
OfTuple(lo, hi) == <<lo, hi>>
OfStr(str) == [i \in 1..Len(str) |-> <<str[i]>>]

\* LANGUAGE_UNICODE_RANGES (language.py) and _LANGUAGE_UNICODE_RANGES (main.py),
\* as Python reads the literals
LANGUAGE_UNICODE_RANGES ==
    [ hebrew  |-> << OfTuple(<<1424>>, <<1535>>) >>,             \* tuple U+0590, U+05FF
      coptic  |-> << OfStr(<<11392>>), OfStr(<<11487>>) >>,      \* two str: U+2C80; U+2CDF
      osmanya |-> << OfTuple(<<4168, 48>>, <<4170, 70>>) >>,     \* tuple U+1048 "0", U+104A "F"
      lycian  |-> << OfStr(<<4136, 48>>), OfStr(<<4137, 70>>) >> \* two str: U+1028 "0"; U+1029 "F"
    ]

\* _LANGUAGE_UNICODE_RANGES of shiftlang_wayland.py: no coptic, osmanya, lycian
WAYLAND_UNICODE_RANGES ==
    [ hebrew |-> << OfTuple(<<1424>>, <<1535>>) >> ]

\* table.get(name): None is the empty sequence here (`not ranges` holds for both)
TableGet(table, name) == IF name \in DOMAIN table THEN table[name] ELSE <<>>

\* Python's str comparison a <= b: by code point, a proper prefix is smaller
StrLE(a, b) ==
    LET n == IF Len(a) < Len(b) THEN Len(a) ELSE Len(b)
        diff == {k \in 1..n : a[k] # b[k]}
    IN  IF diff = {} THEN Len(a) <= Len(b)
        ELSE LET k == CHOOSE m \in diff : \A o \in diff : m <= o
             IN  a[k] < b[k]

\* the two nested loops: "true" at the first character inside a range, "false"
\* when the text is exhausted, "error" (ValueError) when an element of the
\* range list does not unpack into two
RECURSIVE scan_from(_, _, _, _)
scan_from(txt, i, ranges, j) ==
    IF i > Len(txt) THEN "false"
    ELSE IF j > Len(ranges) THEN scan_from(txt, i + 1, ranges, 1)
    ELSE IF Len(ranges[j]) # 2 THEN "error"
    ELSE IF StrLE(ranges[j][1], <<txt[i]>>) /\ StrLE(<<txt[i]>>, ranges[j][2]) THEN "true"
    ELSE scan_from(txt, i, ranges, j + 1)

\* variant of the no-entry outcome: what the docstring of main.py's copy
\* announces ("returns False")
no_ranges_false == "false"

\* `if not ranges: return None`
no_ranges == "none"

scan(txt, ranges) == scan_from(txt, 1, ranges, 1)

\* language.py, lines 234-256
detect_is_source_language(txt, lang) ==
    LET ranges == TableGet(LANGUAGE_UNICODE_RANGES, CODE_TO_NAME(Lower(lang)))
    IN  IF ranges = <<>> THEN no_ranges ELSE scan(txt, ranges)

\* main.py, lines 163-181: no code-to-name mapping
main_detect_is_source_language(txt, lang) ==
    LET ranges == TableGet(LANGUAGE_UNICODE_RANGES, Lower(lang))
    IN  IF ranges = <<>> THEN no_ranges ELSE scan(txt, ranges)

\* shiftlang_wayland.py, lines 122-138: no code-to-name mapping, shorter table
wayland_detect_is_source_language(txt, lang) ==
    LET ranges == TableGet(WAYLAND_UNICODE_RANGES, Lower(lang))
    IN  IF ranges = <<>> THEN no_ranges ELSE scan(txt, ranges)

\* the texts handed to the resolver
MaxSampleLen == 2
Samples == UNION {[1..n -> CodePoints] : n \in 0..MaxSampleLen}

IdleResolver ==
    /\ impl = "language"
    /\ source_language = "hebrew"
    /\ sample = <<>>
    /\ resolved = "pending"

InitResolver ==
    /\ entry = "resolver"
    /\ now = CooldownTicks
    /\ IdleListener
    /\ IdlePipe
    /\ IdleMain
    /\ tpc = "start"
    /\ impl \in {"language", "main", "wayland"}
    /\ source_language \in SourceLanguages
    /\ sample \in Samples
    /\ resolved = "pending"
    /\ IdleOther

R_Language ==
    /\ entry = "resolver"
    /\ impl = "language"
    /\ resolved = "pending"
    /\ resolved' = detect_is_source_language(sample, source_language)
    /\ UNCHANGED <<otherVars, entry, now, listenerVars, pipeVars, mainVars, tpc, impl,
                   source_language, sample>>

R_Main ==
    /\ entry = "resolver"
    /\ impl = "main"
    /\ resolved = "pending"
    /\ resolved' = main_detect_is_source_language(sample, source_language)
    /\ UNCHANGED <<otherVars, entry, now, listenerVars, pipeVars, mainVars, tpc, impl,
                   source_language, sample>>

R_Wayland ==
    /\ entry = "resolver"
    /\ impl = "wayland"
    /\ resolved = "pending"
    /\ resolved' = wayland_detect_is_source_language(sample, source_language)
    /\ UNCHANGED <<otherVars, entry, now, listenerVars, pipeVars, mainVars, tpc, impl,
                   source_language, sample>>

NextResolver == R_Language \/ R_Main \/ R_Wayland

----------------------------------------------------------------------------
(* Initial states and specifications *)

InitWayland ==
    /\ entry = "wayland"
    /\ now = CooldownTicks
    /\ InitListener
    /\ IdlePipe
    /\ IdleMain
    /\ tpc = "start"
    /\ IdleResolver
    /\ IdleOther

InitMain ==
    /\ entry = "main"
    /\ now = CooldownTicks
    /\ IdleListener
    /\ InitPipe
    /\ IdleMain
    /\ tpc = "start"
    /\ IdleResolver
    /\ IdleOther

InitTranslate ==
    /\ entry = "translate"
    /\ now = CooldownTicks
    /\ IdleListener
    /\ InitPipe
    /\ IdleMain
    /\ tpc = "start"
    /\ IdleResolver
    /\ IdleOther

----------------------------------------------------------------------------
(* The provider wrappers: OpenRouterTranslator.translate                   *)
(* (src/openrouter_translator.py), TranslatorsWrapper.translate and        *)
(* MyMemoryWrapper.translate (src/shiftlang/translator.py)                 *)

Wrappers == {"OpenRouterTranslator", "TranslatorsWrapper", "MyMemoryWrapper"}

\* the characters of the texts: a blank, a letter, a double quote
Whitespace == {" "}
Chars == {" ", "h", "\""}
MaxTextLen == 2
PyStrs == {PyStr(s) : s \in UNION {[1..n -> Chars] : n \in 0..MaxTextLen}}
PyTexts == {PyNone} \cup PyStrs

RECURSIVE lstrip(_, _)
lstrip(s, cs) == IF s # <<>> /\ Head(s) \in cs THEN lstrip(Tail(s), cs) ELSE s

RECURSIVE rstrip(_, _)
rstrip(s, cs) ==
    IF s # <<>> /\ s[Len(s)] \in cs THEN rstrip(SubSeq(s, 1, Len(s) - 1), cs) ELSE s

\* str.strip(chars)
strip(s, cs) == rstrip(lstrip(s, cs), cs)

\* `not text`
falsy(v) == v = PyNone \/ v = PyStr(<<>>)

\* variant of the early return that tests `not text` only
blank_only_falsy(v) == falsy(v)

\* `not text or not text.strip()`: the test of the early `return text`
blank(v) == falsy(v) \/ strip(v.s, Whitespace) = <<>>

\* the JSON bodies of a response: choices[0].message.content present (a str
\* or null), or one of the keys on the way missing
Bodies == {[choices |-> <<[message |-> [content |-> c]]>>] : c \in PyTexts} \cup
    { [choices |-> <<[message |-> [role |-> "assistant"]]>>],
      [choices |-> <<[finish_reason |-> "error"]>>],
      [choices |-> <<>>],
      [error |-> "rate limited"] }

\* what requests.post meets: a connection error or timeout, or an HTTP
\* response with a status and a body that is JSON or not
Responses ==
    {[kind |-> "error", status |-> 0, json |-> FALSE, body |-> [error |-> ""]]} \cup
    {[kind |-> "http", status |-> st, json |-> FALSE, body |-> [error |-> ""]] :
        st \in {200, 401, 500}} \cup
    {[kind |-> "http", status |-> st, json |-> TRUE, body |-> b] :
        st \in {200, 401, 500}, b \in Bodies}

\* result["choices"][0]["message"]["content"].strip(), then
\* .strip('"').strip("'")   (lines 80-85)
content_of(body) ==
    IF "choices" \notin DOMAIN body THEN Raises("KeyError")
    ELSE IF Len(body.choices) = 0 THEN Raises("IndexError")
    ELSE IF "message" \notin DOMAIN body.choices[1] THEN Raises("KeyError")
    ELSE IF "content" \notin DOMAIN body.choices[1].message THEN Raises("KeyError")
    ELSE LET c == body.choices[1].message.content
         IN  IF c = PyNone THEN Raises("AttributeError")
             ELSE Returns(PyStr(strip(strip(strip(c.s, Whitespace), {"\""}), {"'"})))

\* the try block of OpenRouterTranslator.translate (lines 61-85)
openrouter_try(txt, resp) ==
    IF resp.kind = "error" THEN Raises("RequestException")
    ELSE IF resp.status = 401 THEN Returns(txt)
    ELSE IF resp.status >= 400 THEN Raises("RequestException")
    ELSE IF ~resp.json THEN Raises("RequestException")
    ELSE content_of(resp.body)

\* the request and what follows it (lines 61-95); the except clauses name
\* RequestException (line 87) and KeyError, IndexError (line 93)
openrouter_request(txt, resp) ==
    LET r == openrouter_try(txt, resp)
    IN  IF r.outcome = "raise" /\ r.exc \in {"RequestException", "KeyError", "IndexError"}
        THEN Returns(txt) ELSE r

\* what a library call (ts.translate_text, MyMemoryTranslator.translate)
\* does: it returns a str or raises
LibraryOutcomes == {Returns(v) : v \in PyStrs} \cup {Raises("Exception")}

InitWrapper ==
    /\ entry = "wrapper"
    /\ now = CooldownTicks
    /\ IdleListener
    /\ IdlePipe
    /\ IdleMain
    /\ tpc = "start"
    /\ IdleResolver
    /\ errors = {}
    /\ errAt = 0
    /\ IdleProvider
    /\ IdleConfig
    /\ IdleStart
    /\ wrapper \in Wrappers
    /\ arg \in PyTexts
    /\ wpc = "called"
    /\ ret = PyNone
    /\ raisedExc = ""
    /\ netCalls = 0
    /\ FreshWrapper(wrapper)

\* variant of translate() that keeps state on the object: the direction is
\* swapped for the next call
self_swaps_direction(obj, txt) ==
    [obj EXCEPT !.source = obj.target, !.target = obj.source]

\* the attributes after translate(txt): no statement of the three
\* translate() methods assigns to self
self_after_call(obj, txt) == obj

\* the early return of each translate(): openrouter_translator.py 36-37,
\* translator.py 61-62 and 95-96
W_Enter ==
    /\ entry = "wrapper"
    /\ wpc = "called"
    /\ IF blank(arg)
       THEN wpc' = "returned" /\ ret' = arg /\ fields' = self_after_call(fields, arg)
       ELSE wpc' = "request" /\ ret' = ret /\ fields' = fields
    /\ UNCHANGED <<entry, now, listenerVars, pipeVars, mainVars, tpc, resolverVars, deviceVars, providerVars,
                   configVars, startVars,
                   wrapper, arg, raisedExc, netCalls, backend, first>>

\* how the call of a wrapper ends once its request was made
W_Finish(r) ==
    /\ netCalls' = netCalls + 1
    /\ fields' = self_after_call(fields, arg)
    /\ IF r.outcome = "return"
       THEN wpc' = "returned" /\ ret' = r.value /\ raisedExc' = raisedExc
       ELSE wpc' = "raised" /\ raisedExc' = r.exc /\ ret' = ret
    /\ UNCHANGED <<entry, now, listenerVars, pipeVars, mainVars, tpc, resolverVars, deviceVars, providerVars,
                   configVars, startVars,
                   wrapper, arg, first>>

\* OpenRouterTranslator.translate, lines 39-95
W_OpenRouter ==
    /\ entry = "wrapper"
    /\ wrapper = "OpenRouterTranslator"
    /\ wpc = "request"
    /\ \E resp \in Responses :
        /\ first.done => resp = backend
        /\ backend' = resp
        /\ W_Finish(openrouter_request(arg, resp))

\* TranslatorsWrapper.translate, lines 64-76: the result, or the exception
\* raised again
W_Translators ==
    /\ entry = "wrapper"
    /\ wrapper = "TranslatorsWrapper"
    /\ wpc = "request"
    /\ \E r \in LibraryOutcomes :
        /\ first.done => r = backend
        /\ backend' = r
        /\ W_Finish(r)

\* MyMemoryWrapper.translate, line 98
W_MyMemory ==
    /\ entry = "wrapper"
    /\ wrapper = "MyMemoryWrapper"
    /\ wpc = "request"
    /\ \E r \in LibraryOutcomes :
        /\ first.done => r = backend
        /\ backend' = r
        /\ W_Finish(r)

\* a second translate() on the same object, with the same backend: of the
\* same text, or of what the first call returned
W_Again ==
    /\ entry = "wrapper"
    /\ wpc \in {"returned", "raised"}
    /\ ~first.done
    /\ first' = [done |-> TRUE, arg |-> arg, outcome |-> wpc, ret |-> ret,
                 exc |-> raisedExc]
    /\ arg' \in {arg} \cup (IF wpc = "returned" THEN {ret} ELSE {})
    /\ wpc' = "called"
    /\ ret' = PyNone
    /\ raisedExc' = ""
    /\ netCalls' = 0
    /\ UNCHANGED <<entry, now, listenerVars, pipeVars, mainVars, tpc, resolverVars,
                   deviceVars, providerVars, configVars, startVars, wrapper, fields,
                   backend>>

NextWrapper == W_Enter \/ W_OpenRouter \/ W_Translators \/ W_MyMemory \/ W_Again

----------------------------------------------------------------------------
(* load_config: src/shiftlang/config.py 53-63 and its copies in            *)
(* src/main.py 23-40 and src/shiftlang_wayland.py 24-41.  Values are       *)
(* written as strings.                                                     *)

\* the defaults dict of main.py and shiftlang_wayland.py (OS_NAME = "Linux")
script_defaults ==
    "hotkey" :> "alt+shift+g" @@ "auto_start" :> "False" @@
    "source_language" :> "hebrew" @@ "target_language" :> "english" @@
    "translation_provider" :> "google" @@ "openrouter_api_key" :> ""

\* DEFAULT_CONFIG of shiftlang/config.py, and the defaults of the copies
DEFAULT_CONFIG(i) ==
    IF i = "shiftlang.config"
    THEN script_defaults @@ "openrouter_model" :> "openrouter/free" @@
         "clear_clipboard_after_paste" :> "True"
    ELSE script_defaults

\* the keys a config.json of the model sets, each to the value "x"
FileKeys == {"hotkey", "target_language", "theme", "clear_clipboard_after_paste"}

\* the elements of a JSON array or string as dict.update() sees them: a
\* sequence of two elements ([k, v], or a str of two characters), or
\* anything else
PairItem(k) == [pair |-> TRUE, k |-> k, val |-> "x"]
OtherItem == [pair |-> FALSE, k |-> "", val |-> ""]
MaxItems == 2
ItemSeqs == UNION {[1..n -> {PairItem(k) : k \in FileKeys} \cup {OtherItem}] :
                    n \in 0..MaxItems}

JsonValue(t, obj, items) ==
    [exists |-> TRUE, readable |-> TRUE, json |-> TRUE, t |-> t,
     obj |-> obj, items |-> items]

\* what can be at CONFIG_PATH: nothing, a file that cannot be read, a file
\* that is not JSON, or a JSON value (object, array, string, number, null)
Files ==
    { NoFile,
      [NoFile EXCEPT !.exists = TRUE],
      [NoFile EXCEPT !.exists = TRUE, !.readable = TRUE] } \cup
    { JsonValue("object", [k \in ks |-> "x"], <<>>) : ks \in SUBSET FileKeys } \cup
    { JsonValue("array", <<>>, its) : its \in ItemSeqs } \cup
    { JsonValue("string", <<>>, <<>>), JsonValue("string", <<>>, <<OtherItem>>),
      JsonValue("number", <<>>, <<>>), JsonValue("null", <<>>, <<>>) }

\* dict.update(mapping): every key of the mapping is set
update_mapping(d, m) ==
    [k \in DOMAIN d \cup DOMAIN m |-> IF k \in DOMAIN m THEN m[k] ELSE d[k]]

\* dict.update(iterable): the elements are taken in order, each must be a
\* sequence of two; the pairs before a wrong element have been set when
\* the exception is raised
RECURSIVE update_items(_, _)
update_items(d, items) ==
    IF items = <<>> THEN [dict |-> d, exc |-> ""]
    ELSE IF ~Head(items).pair THEN [dict |-> d, exc |-> "TypeError"]
    ELSE update_items(update_mapping(d, Head(items).k :> Head(items).val), Tail(items))

\* config.update(cfg) for the value json.load returned
dict_update(d, v) ==
    IF v.t = "object" THEN [dict |-> update_mapping(d, v.obj), exc |-> ""]
    ELSE IF v.t \in {"array", "string"} THEN update_items(d, v.items)
    ELSE [dict |-> d, exc |-> "TypeError"]

\* load_config(): the dict it returns.  Every exception of the try block
\* is caught by `except Exception`.
load_config(i, f) ==
    IF ~f.exists THEN DEFAULT_CONFIG(i)
    ELSE IF ~f.readable \/ ~f.json THEN DEFAULT_CONFIG(i)
    ELSE dict_update(DEFAULT_CONFIG(i), f).dict

InitConfig ==
    /\ entry = "config"
    /\ now = CooldownTicks
    /\ IdleListener
    /\ IdlePipe
    /\ IdleMain
    /\ tpc = "start"
    /\ IdleResolver
    /\ errors = {}
    /\ errAt = 0
    /\ IdleProvider
    /\ IdleWrapper
    /\ IdleStart
    /\ cfgImpl \in {"shiftlang.config", "main", "wayland"}
    /\ cfgFile \in Files
    /\ cfgpc = "called"
    /\ config = <<>>
    /\ saved = <<>>

LoadConfig ==
    /\ entry = "config"
    /\ cfgpc = "called"
    /\ config' = load_config(cfgImpl, cfgFile)
    /\ cfgpc' = "returned"
    /\ UNCHANGED <<entry, now, listenerVars, pipeVars, mainVars, tpc, resolverVars, deviceVars, providerVars,
                   wrapperVars, startVars, cfgImpl, cfgFile, saved>>

(* save_config: src/shiftlang/config.py 66-87 *)

\* json.dump of a config value: a bool becomes the literal true or false, a
\* str a quoted string
json_dump(v) ==
    IF v = "True" THEN [t |-> "true", s |-> ""]
    ELSE IF v = "False" THEN [t |-> "false", s |-> ""]
    ELSE [t |-> "string", s |-> v]

\* json.load of a JSON token
json_load(tok) ==
    CASE tok.t = "true" -> "True"
      [] tok.t = "false" -> "False"
      [] OTHER -> tok.s

\* the arguments of the save_config() calls of the model
SaveArgs ==
    [hotkey : {"alt+shift+g", "ctrl+q"}, auto_start : {"True", "False"},
     source_lang : {"hebrew", "es"}, target_lang : {"english"},
     provider : {"google", "openrouter"}, api_key : {"", "sk"},
     model : {"openrouter/free"}]

\* the dict save_config() builds (lines 76-84)
saved_dict(a) ==
    "hotkey" :> a.hotkey @@ "auto_start" :> a.auto_start @@
    "source_language" :> a.source_lang @@ "target_language" :> a.target_lang @@
    "translation_provider" :> a.provider @@ "openrouter_api_key" :> a.api_key @@
    "openrouter_model" :> a.model

\* variant that updates the object the file holds
save_config_merging(f, a) ==
    LET cfg == saved_dict(a)
        old == IF f.json /\ f.t = "object" THEN f.obj ELSE <<>>
        new == update_mapping(old, cfg)
    IN  JsonValue("object", [k \in DOMAIN new |-> json_load(json_dump(new[k]))], <<>>)

\* save_config(): what is at CONFIG_PATH after the call when f was there
\* before it.  open(CONFIG_PATH, "w") truncates, json.dump writes the dict;
\* the file is held as the value json.load reads from it.
save_config(f, a) ==
    LET cfg == saved_dict(a)
        written == [k \in DOMAIN cfg |-> json_dump(cfg[k])]
    IN  JsonValue("object", [k \in DOMAIN written |-> json_load(written[k])], <<>>)

\* a save_config() call that returns, followed by a load_config() call
SaveConfig ==
    /\ entry = "config"
    /\ cfgImpl = "shiftlang.config"
    /\ saved = <<>>
    /\ \E a \in SaveArgs :
          /\ cfgFile' = save_config(cfgFile, a)
          /\ saved' = [args |-> a, before |-> cfgFile]
    /\ cfgpc' = "called"
    /\ config' = <<>>
    /\ UNCHANGED <<entry, now, listenerVars, pipeVars, mainVars, tpc, resolverVars, deviceVars, providerVars,
                   wrapperVars, startVars, cfgImpl>>

----------------------------------------------------------------------------
(* Start-up: Listener.find_devs and Listener.start                          *)
(* (src/shiftlang_wayland.py 308-323, 360-397) and main() of src/main.py    *)

Letters == {"KEY_A", "KEY_B", "KEY_C", "KEY_D", "KEY_E", "KEY_F", "KEY_G",
            "KEY_H", "KEY_I", "KEY_J", "KEY_K", "KEY_L", "KEY_M", "KEY_N",
            "KEY_O", "KEY_P", "KEY_Q", "KEY_R", "KEY_S", "KEY_T", "KEY_U",
            "KEY_V", "KEY_W", "KEY_X", "KEY_Y", "KEY_Z"}
Digits == {"KEY_0", "KEY_1", "KEY_2", "KEY_3", "KEY_4", "KEY_5", "KEY_6",
           "KEY_7", "KEY_8", "KEY_9"}
KEY_SPACE == "KEY_SPACE"
FullKeys == Letters \cup Digits \cup {KEY_SPACE, KEY_LEFTALT}

\* the physical devices behind the nodes
Physical == {"usb-1", "usb-2"}

Node(ph, readable, ev_key, keys) ==
    [present |-> TRUE, readable |-> readable, ev_key |-> ev_key,
     phys |-> ph, keys |-> keys]

\* what a node can be: absent; a keyboard (one of the event nodes the
\* keyboard exposes); a keyboard the user may not open; a pad with few
\* keys; a keyboard without a space bar; a mouse; a device with no keys
NodeKinds ==
    {AbsentNode} \cup
    {Node(ph, TRUE, TRUE, FullKeys) : ph \in Physical} \cup
    { Node("usb-1", FALSE, TRUE, FullKeys),
      Node("usb-2", TRUE, TRUE, {"KEY_A", KEY_SPACE}),
      Node("usb-2", TRUE, TRUE, Letters \cup Digits),
      Node("usb-2", TRUE, TRUE, {"BTN_LEFT"}),
      Node("usb-2", TRUE, FALSE, {}) }

\* variant of the test of line 317 that asks for every letter, every digit
\* and the space bar
has_every_typing_key(keys) == (Letters \cup Digits \cup {KEY_SPACE}) \subseteq keys

\* `ecodes.KEY_A in keys and ecodes.KEY_SPACE in keys`   (line 317)
has_typical_keys(keys) == "KEY_A" \in keys /\ KEY_SPACE \in keys

\* find_devs(): the nodes it returns.  A node that cannot be opened raises
\* PermissionError or OSError and is skipped.
find_devs(ins) ==
    {n \in Nodes : /\ ins[n].present
                   /\ ins[n].readable
                   /\ ins[n].ev_key
                   /\ has_typical_keys(ins[n].keys)}

NO_KEYBOARD == "ERROR: No keyboard devices found."

InitStart ==
    /\ entry = "startup"
    /\ now = CooldownTicks
    /\ IdleListener
    /\ IdlePipe
    /\ IdleMain
    /\ tpc = "start"
    /\ IdleResolver
    /\ errors = {}
    /\ errAt = 0
    /\ IdleProvider
    /\ IdleWrapper
    /\ IdleConfig
    /\ inputs \in [Nodes -> NodeKinds]
    /\ proc = [p \in Procs |-> "none"]
    /\ script \in [Procs -> {"wayland", "main"}]
    /\ status = [p \in Procs |-> -1]
    /\ monitors = [p \in Procs |-> {}]
    /\ out = [p \in Procs |-> {}]
    /\ press = [phys |-> "", key |-> ""]
    /\ handled = [p \in Procs |-> 0]

\* `python shiftlang_wayland.py`: Listener().start() (lines 360-392, 395-397).
\* With no device start() prints the error and returns False; the module
\* body ends there, so the interpreter exits with status 0.  Otherwise one
\* monitor thread per device is started and the main thread sleeps.
S_StartWayland(p) ==
    /\ entry = "startup"
    /\ proc[p] = "none"
    /\ script[p] = "wayland"
    /\ LET found == find_devs(inputs)
       IN  IF found = {}
           THEN /\ out' = [out EXCEPT ![p] = @ \cup {NO_KEYBOARD}]
                /\ proc' = [proc EXCEPT ![p] = "exited"]
                /\ status' = [status EXCEPT ![p] = 0]
                /\ UNCHANGED monitors
           ELSE /\ out' = [out EXCEPT ![p] = @ \cup {"Keyboards detected"}]
                /\ proc' = [proc EXCEPT ![p] = "listening"]
                /\ monitors' = [monitors EXCEPT ![p] = found]
                /\ UNCHANGED status
    /\ UNCHANGED <<entry, now, listenerVars, pipeVars, mainVars, tpc, resolverVars, deviceVars, providerVars,
                   wrapperVars, configVars, inputs, script, press, handled>>

\* `python main.py`: main() registers the hotkey and waits (lines 385-397)
S_StartMain(p) ==
    /\ entry = "startup"
    /\ proc[p] = "none"
    /\ script[p] = "main"
    /\ out' = [out EXCEPT ![p] = @ \cup {"ShiftLang running"}]
    /\ proc' = [proc EXCEPT ![p] = "listening"]
    /\ UNCHANGED <<entry, now, listenerVars, pipeVars, mainVars, tpc, resolverVars, deviceVars, providerVars,
                   wrapperVars, configVars, inputs, script, status, monitors,
                   press, handled>>

\* Ctrl+C in start(): KeyboardInterrupt, "Goodbye!", return True (389-392);
\* the daemon threads end with the process
S_Interrupt(p) ==
    /\ entry = "startup"
    /\ proc[p] = "listening"
    /\ script[p] = "wayland"
    /\ out' = [out EXCEPT ![p] = @ \cup {"Goodbye!"}]
    /\ proc' = [proc EXCEPT ![p] = "exited"]
    /\ status' = [status EXCEPT ![p] = 0]
    /\ monitors' = [monitors EXCEPT ![p] = {}]
    /\ UNCHANGED <<entry, now, listenerVars, pipeVars, mainVars, tpc, resolverVars, deviceVars, providerVars,
                   wrapperVars, configVars, inputs, script, press, handled>>

\* one physical press of key k on keyboard ph: every node of that keyboard
\* that carries the key reports it, and each monitor thread reading such a
\* node calls handle() with it (lines 352-355)
S_Press(ph, k) ==
    /\ entry = "startup"
    /\ \E p \in Procs : proc[p] = "listening"
    /\ press' = [phys |-> ph, key |-> k]
    /\ handled' = [p \in Procs |->
                    Cardinality({n \in monitors[p] :
                                    inputs[n].phys = ph /\ k \in inputs[n].keys})]
    /\ UNCHANGED <<entry, now, listenerVars, pipeVars, mainVars, tpc, resolverVars, deviceVars, providerVars,
                   wrapperVars, configVars, inputs, proc, script, status, monitors,
                   out>>

NextStart ==
    \/ \E p \in Procs : S_StartWayland(p)
    \/ \E p \in Procs : S_StartMain(p)
    \/ \E p \in Procs : S_Interrupt(p)
    \/ \E ph \in Physical, k \in {"KEY_A", "KEY_G"} : S_Press(ph, k)

----------------------------------------------------------------------------
(* The provider tables (src/shiftlang/config.py 19-38, 90-111;              *)
(* src/shiftlang/translator.py 15-34) and the translator factory            *)
(* (translator.py 101-181)                                                  *)

\* FREE_PROVIDERS and API_KEY_PROVIDERS of config.py, in list order
FREE_PROVIDERS ==
    <<"google", "mymemory", "bing", "alibaba", "baidu", "yandex", "reverso",
      "sogou", "youdao", "tencent", "itranslate", "argos">>
API_KEY_PROVIDERS == <<"openrouter">>

\* PROVIDER_INFO of translator.py, in insertion order: id, library, requires_key
PROVIDER_INFO ==
    << <<"google", "deep-translator", FALSE>>, <<"mymemory", "deep-translator", FALSE>>,
       <<"bing", "translators", FALSE>>, <<"alibaba", "translators", FALSE>>,
       <<"baidu", "translators", FALSE>>, <<"yandex", "translators", FALSE>>,
       <<"reverso", "translators", FALSE>>, <<"sogou", "translators", FALSE>>,
       <<"youdao", "translators", FALSE>>, <<"tencent", "translators", FALSE>>,
       <<"itranslate", "translators", FALSE>>, <<"argos", "translators", FALSE>>,
       <<"openrouter", "openrouter", TRUE>> >>

\* str.lower() on the provider names of the model
provider_lower(name) ==
    CASE name = "Google" -> "google"
      [] name = "OPENROUTER" -> "openrouter"
      [] name = "Tencent" -> "tencent"
      [] OTHER -> name

\* variant of the factory with the Google branch only
create_translator_google_only(pname, source, target, api_key, model) ==
    [class |-> "GoogleTranslator", source |-> source, target |-> target,
     api_key |-> "", model |-> "", provider |-> "", unknown |-> FALSE]

\* create_translator (lines 101-133): the object built, `unknown` when the
\* fallback branch printed "Unknown provider"
create_translator(pname, source, target, api_key, model) ==
    LET p == provider_lower(pname)
        obj(c, k, m, pr, u) ==
            [class |-> c, source |-> source, target |-> target, api_key |-> k,
             model |-> m, provider |-> pr, unknown |-> u]
    IN  IF p = "openrouter"
        THEN obj("OpenRouterTranslator", api_key,
                 IF model = "" THEN "openrouter/free" ELSE model, "", FALSE)
        ELSE IF p = "google" THEN obj("GoogleTranslator", "", "", "", FALSE)
        ELSE IF p = "mymemory" THEN obj("MyMemoryWrapper", api_key, "", "", FALSE)
        ELSE IF p \in {"bing", "alibaba", "baidu", "yandex", "reverso", "sogou",
                       "youdao", "tencent", "itranslate", "argos"}
        THEN obj("TranslatorsWrapper", "", "", p, FALSE)
        ELSE obj("GoogleTranslator", "", "", "", TRUE)

\* config.get("translation_provider", "google")
configured_provider(cfg) ==
    IF "translation_provider" \in DOMAIN cfg THEN cfg["translation_provider"]
    ELSE "google"

\* create_translators (lines 136-165)
create_translators(cfg) ==
    LET pname == provider_lower(configured_provider(cfg))
        source == cfg["source_language"]
        target == cfg["target_language"]
        api_key == cfg["openrouter_api_key"]
        model == cfg["openrouter_model"]
    IN  [done |-> TRUE,
         forward |-> create_translator(pname, source, target, api_key, model),
         reverse |-> create_translator(pname, target, source, api_key, model),
         provider |-> pname]

\* variant that compares the name as written
is_valid_provider_exact(pname) == pname \in Range(FREE_PROVIDERS \o API_KEY_PROVIDERS)

\* is_valid_provider: provider.lower() in ALL_PROVIDERS
is_valid_provider(pname) ==
    provider_lower(pname) \in Range(FREE_PROVIDERS \o API_KEY_PROVIDERS)

\* requires_api_key: provider.lower() in API_KEY_PROVIDERS
requires_api_key(pname) == provider_lower(pname) \in Range(API_KEY_PROVIDERS)

\* get_free_providers: the ids of the PROVIDER_INFO items without
\* requires_key, in order
get_free_providers ==
    LET free == SelectSeq(PROVIDER_INFO, LAMBDA item : ~item[3])
    IN  [i \in 1..Len(free) |-> free[i][1]]

\* the config dicts of the model: a provider name in some letter case, known
\* or not, or no translation_provider key
ProviderConfigs ==
    LET base(st, k) ==
            "source_language" :> st[1] @@ "target_language" :> st[2] @@
            "openrouter_api_key" :> k @@ "openrouter_model" :> "openrouter/free"
        bases == {base(st, k) : st \in {<<"hebrew", "english">>, <<"es", "en">>},
                                k \in {"", "sk"}}
        names == {"google", "Google", "OPENROUTER", "openrouter", "mymemory",
                  "bing", "Tencent", "argos", "deepl", ""}
    IN  bases \cup {b @@ "translation_provider" :> n : b \in bases, n \in names}

InitProvider ==
    /\ entry = "provider"
    /\ now = CooldownTicks
    /\ IdleListener
    /\ IdlePipe
    /\ IdleMain
    /\ tpc = "start"
    /\ IdleResolver
    /\ errors = {}
    /\ errAt = 0
    /\ IdleWrapper
    /\ IdleConfig
    /\ IdleStart
    /\ pconfig \in ProviderConfigs
    /\ created = [done |-> FALSE]
    /\ queried = [done |-> FALSE]

\* create_translators(config)
P_Create ==
    /\ entry = "provider"
    /\ ~created.done
    /\ created' = create_translators(pconfig)
    /\ UNCHANGED <<entry, now, listenerVars, pipeVars, mainVars, tpc, resolverVars,
                   deviceVars, wrapperVars, configVars, startVars, pconfig, queried>>

\* is_valid_provider, requires_api_key and get_free_providers for the
\* configured name
P_Query ==
    /\ entry = "provider"
    /\ ~queried.done
    /\ LET name == configured_provider(pconfig)
       IN  queried' = [done |-> TRUE,
                       valid |-> is_valid_provider(name),
                       requires_key |-> requires_api_key(name),
                       free |-> get_free_providers]
    /\ UNCHANGED <<entry, now, listenerVars, pipeVars, mainVars, tpc, resolverVars,
                   deviceVars, wrapperVars, configVars, startVars, pconfig, created>>

Init ==
    \/ InitWayland
    \/ InitMain
    \/ InitTranslate
    \/ InitResolver
    \/ InitWrapper
    \/ InitConfig
    \/ InitStart
    \/ InitProvider

NextWayland ==
    \/ \E d \in Devices : Handle(d)
    \/ \E d \in Devices : NonKeyEvent(d)
    \/ \E d \in Devices : Guard(d)
    \/ \E d \in Devices : Accept(d)
    \/ \E outcome \in {"returned", "raised"} : RunEnds(outcome)

NextMain ==
    \/ M_Callback
    \/ MainRunStep
    \/ M_Raise

NextTranslate ==
    \/ T_GetOrig
    \/ T_InjectCopy
    \/ T_Poll
    \/ T_Check
    \/ T_Call1
    \/ T_Call2
    \/ T_Write
    \/ T_Paste
    \/ T_Raise
    \/ T_Caught

Next ==
    \/ Tick
    \/ NextWayland
    \/ NextMain
    \/ NextTranslate
    \/ CopyLands
    \/ NextResolver
    \/ NextWrapper
    \/ LoadConfig
    \/ SaveConfig
    \/ NextStart
    \/ \E d \in Devices : DeviceError(d)
    \/ P_Create
    \/ P_Query

\* every entry point
Spec == Init /\ [][Next]_vars

\* the Wayland listener alone
SpecWayland == InitWayland /\ [][Tick \/ NextWayland]_vars

\* the Wayland listener with devices that fail
SpecDevices ==
    InitWayland /\ [][Tick \/ NextWayland \/ \E d \in Devices : DeviceError(d)]_vars

\* main.py alone
SpecMain == InitMain /\ [][Tick \/ NextMain \/ CopyLands]_vars

\* one run of the Wayland translate() alone
SpecTranslate == InitTranslate /\ [][NextTranslate \/ CopyLands]_vars

\* both pipelines, one run of translate() and the runs of translate_text()
SpecPipeline ==
    (InitMain \/ InitTranslate) /\ [][Tick \/ NextMain \/ NextTranslate \/ CopyLands]_vars

\* one call of a resolver
SpecResolver == InitResolver /\ [][NextResolver]_vars

\* one call of a provider wrapper
SpecWrapper == InitWrapper /\ [][NextWrapper]_vars

\* one call of load_config()
SpecConfig == InitConfig /\ [][LoadConfig \/ SaveConfig]_vars

\* the start-up of two processes
SpecStart == InitStart /\ [][NextStart]_vars

\* the translator factory and the provider queries
SpecProvider == InitProvider /\ [][P_Create \/ P_Query]_vars

\* threads that can take a step eventually take one: a started run() thread
\* and a device thread inside handle() are scheduled, and translate_text()
\* runs on to its finally clause
Fairness ==
    /\ WF_vars(\E outcome \in {"returned", "raised"} : RunEnds(outcome))
    /\ \A d \in Devices : WF_vars(Accept(d))
    /\ WF_vars(MainRunStep)

FairSpec ==
    /\ (InitWayland \/ InitMain)
    /\ [][Tick \/ NextWayland \/ NextMain \/ CopyLands]_vars /\ Fairness

\* the steps of translate() that do not raise
TranslateRunStep ==
    \/ T_GetOrig
    \/ T_InjectCopy
    \/ T_Poll
    \/ T_Check
    \/ T_Call1
    \/ T_Call2
    \/ T_Write
    \/ T_Paste

\* both pipelines, where a run that can take a step eventually takes one:
\* every statement of the run returns or raises
FairPipeline ==
    /\ (InitMain \/ InitTranslate)
    /\ [][NextMain \/ NextTranslate \/ CopyLands]_vars
    /\ WF_vars(MainRunStep)
    /\ WF_vars(TranslateRunStep)

----------------------------------------------------------------------------
(* Claims about the Wayland listener *)

\* C1: in the Wayland listener at most one pipeline run (a run() thread inside
\* translate()) is in flight at any time, under every interleaving of the
\* device threads.
C1_AtMostOneRunInFlight == running <= 1

\* C2: the guard acquisition is atomic with respect to the other device threads:
\* of two device threads that observe the chord active within the same cooldown
\* window only one passes the guard test and goes on to start a run.
C2_OneThreadAcquires ==
    \A d1, d2 \in Devices :
        (d1 # d2) => ~(pc[d1] = "accept" /\ pc[d2] = "accept")

\* C3: with a single device thread, an activation less than 1.5 s after the
\* last accepted one passes no guard test (so it starts no run and causes no
\* provider call), whether or not the first run has ended.
C3_SecondPressWithinCooldownDropped ==
    [][Cardinality(devs) = 1 =>
        \A d \in Devices :
            (pc[d] = "guard" /\ pc'[d] = "accept")
                => (now - lastAccept >= CooldownTicks)]_vars

\* C3 witness: one device, the first run has already ended, and a second
\* activation inside the cooldown window has just been rejected.
C3_Witness ==
    /\ Cardinality(devs) = 1
    /\ rejHeld
    /\ ~busy
    /\ running = 0
    /\ lastAccept > 0
    /\ now - lastAccept < CooldownTicks

\* C5: a rejected activation is dropped, not queued: after a rejection, while
\* the chord is simply kept held, only a fresh key-down of a chord key can
\* start a run (no key-repeat/hold event, no event of another key).
C5_RejectedActivationDropped ==
    \A d \in Devices :
        (pc[d] = "accept" /\ rejHeld)
            => (ev[d].keystate = "down" /\ ev[d].key \in ChordKeys(hotkey))

\* C6: one physical press-and-hold of the chord starts exactly one run, never
\* one per key-repeat event: no second run is accepted while the chord stays held.
C6_OneRunPerPressAndHold == holdRuns <= 1

\* C7: check_hotkey(pressed, hotkey_codes) is true exactly when every key group
\* of hotkey_codes has at least one of its codes in the pressed set; extra
\* pressed keys do not prevent a match.
C7_CheckHotkeyIffEveryGroupPressed ==
    check_hotkey(pressed, hotkey_codes)
        <=> (\A i \in 1..Len(hotkey_codes) : Range(hotkey_codes[i]) \cap pressed # {})

\* C7 witness: a two-group chord matches while a key outside the chord is
\* pressed as well.
C7_Witness ==
    /\ Len(hotkey_codes) = 2
    /\ check_hotkey(pressed, hotkey_codes)
    /\ "KEY_X" \in pressed

\* C8: a chord activation is accepted exactly when busy is false and
\* now - last_trigger >= 1.5 s (1.5 s exactly is accepted); an accepted
\* handle() call sets busy, sets last_trigger to its `now`, empties the pressed
\* set and starts exactly one run() thread.
C8_AcceptedIffGuardFree ==
    [][\A d \in Devices :
        /\ (pc[d] = "guard" /\ pc'[d] # "guard")
              => ((pc'[d] = "accept")
                    <=> (~busy /\ now - last_trigger >= CooldownTicks))
        /\ (pc[d] = "accept" /\ pc'[d] # "accept")
              => /\ busy'
                 /\ last_trigger' = tnow[d]
                 /\ pressed' = {}
                 /\ running' = running + 1]_vars

\* C8 witness: an activation exactly 1.5 s after the previous accepted one has
\* passed the guard test.
C8_Witness ==
    \E d \in Devices :
        /\ pc[d] = "accept"
        /\ last_trigger > 0
        /\ tnow[d] - last_trigger = CooldownTicks

----------------------------------------------------------------------------
(* Claims about the keyboard-hook entry point and the pipeline run *)

\* C4: in main.py a hotkey callback less than 1.5 s after a previously accepted
\* one starts no pipeline run, also when the earlier run has already ended.
C4_MainCallbackWithinCooldownDropped ==
    [][(mpc = "idle" /\ mpc' = "wait_release")
          => (mLast = 0 \/ now - mLast >= CooldownTicks)]_vars

\* C9: every accepted trigger is eventually released: however the run ends,
\* Listener.busy (Wayland) and _is_translating (main.py) become false again.
C9_BusyEventuallyReleased ==
    (busy \/ is_translating) ~> (~busy /\ ~is_translating)

\* C9 witness: a trigger was accepted, its run has ended, and the guard is free.
C9_Witness ==
    /\ entry = "wayland"
    /\ lastAccept > 0
    /\ last_trigger = lastAccept
    /\ running = 0
    /\ ~busy

\* C10: when the clipboard content never changes after the copy chord was
\* injected, the run makes no provider call and injects no paste, also when the
\* clipboard held text before the trigger.
C10_NoCaptureNoProviderCall ==
    (callLog # <<>> \/ pasted) => clipChanged


----------------------------------------------------------------------------
(* Claims about the direction resolver *)

\* the name the resolver copy `i` looks up for source language `lang`
LookupName(i, lang) == IF i = "language" THEN CODE_TO_NAME(Lower(lang)) ELSE Lower(lang)

\* the script-range table of the resolver copy `i`
TableOf(i) == IF i = "wayland" THEN WAYLAND_UNICODE_RANGES ELSE LANGUAGE_UNICODE_RANGES

\* the code points the table registers for a script: U+0590-05FF, U+2C80-2CDF,
\* U+10480-104AF, U+10280-1029F
RegisteredRange(name) ==
    CASE name = "hebrew" -> 1424..1535
      [] name = "coptic" -> 11392..11487
      [] name = "osmanya" -> 66688..66735
      [] name = "lycian" -> 66176..66207
      [] OTHER -> {}

\* C15: for a source language with an entry in the script-range table, the
\* resolver returns True when the text has a code point of the language's
\* registered range and False when it has none; also for the entries above
\* U+FFFF.
C15_ResolverFollowsRegisteredRange ==
    (/\ resolved # "pending"
     /\ impl \in {"language", "main"}
     /\ LookupName(impl, source_language) \in DOMAIN TableOf(impl))
    => resolved =
         IF \E k \in 1..Len(sample) :
                sample[k] \in RegisteredRange(LookupName(impl, source_language))
         THEN "true" ELSE "false"

----------------------------------------------------------------------------
(* Claims about the steps of one pipeline run *)

\* the capture loop is over and the run is about to report "No text selected"
NoSelectionReported ==
    \/ entry = "main" /\ mpc = "check" /\ main_no_text(text)
    \/ entry = "translate" /\ tpc = "check" /\ no_text(text)

\* the run stands at pipeline step `step`
AtStep(step) ==
    \/ entry = "main" /\ mpc = step
    \/ entry = "translate" /\ tpc = step

\* the run has ended
RunOver ==
    \/ entry = "main" /\ mpc = "idle" /\ ~is_translating
    \/ entry = "translate" /\ tpc \in {"returned", "raised"}

\* C11, as stated: "no selection" is reported only after the reference
\* timeout of 2 s, that is after all 20 polls.
C11_NoSelectionOnlyAfterTwentyPolls ==
    NoSelectionReported => polls = WaylandPolls

\* C11, amended: "no selection" is reported only after every poll of the entry
\* point's own capture loop was made (20 in shiftlang_wayland.py, 10 in
\* main.py); the loop ends early only on a non-empty value.
C11_NoSelectionOnlyAfterOwnTimeout ==
    NoSelectionReported => polls = (IF entry = "main" THEN MainPolls ELSE WaylandPolls)

\* C11 witness: main.py cleared the clipboard, nothing was selected, and the
\* loop ran to its last poll
C11_Witness ==
    /\ entry = "main"
    /\ mpc = "check"
    /\ selection = ""
    /\ text = ""
    /\ polls = MainPolls

\* C12: in every run the clipboard is empty (cleared to the sentinel) when the
\* copy chord is injected.
C12_ClipboardClearedBeforeCopy ==
    [][(~copied /\ copied') => clipboard = ""]_vars

\* C13: within one run the steps occur in order and at most once: the copy
\* chord before every poll, a provider call only after a non-empty capture,
\* the clipboard write only after the provider step returned, the paste chord
\* only after the write, and no step of a run is taken a second time.
C13_StepsInOrderAtMostOnce ==
    /\ polls > 0 => copied
    /\ callLog # <<>> => (polls > 0 /\ text # "")
    /\ wrote # "no" => (callLog # <<>> /\ ~AtStep("call1") /\ ~AtStep("call2"))
    /\ pasted => wrote # "no"
    /\ ~(copied /\ AtStep("copy"))
    /\ ~(wrote # "no" /\ AtStep("write"))
    /\ ~(pasted /\ AtStep("paste"))
    /\ Len(callLog) <= 2

\* C13 witness: a run that made both provider calls, wrote and pasted
C13_Witness ==
    /\ RunOver
    /\ copied
    /\ Len(callLog) = 2
    /\ wrote = "ok"
    /\ pasted

\* C14: when the clipboard write of the translated text fails, the paste chord
\* is not injected.
C14_NoPasteAfterFailedWrite ==
    pasted => wrote = "ok"

\* the first call the resolved direction asks for
DirectionCall(src) ==
    CASE src = "true" -> "forward"
      [] src = "false" -> "reverse"
      [] OTHER -> "auto_to_target"

\* C17, as stated: for every provider the first provider call of a run is the
\* one the resolved direction asks for.
C17_FirstCallFollowsDirection ==
    callLog # <<>> => callLog[1] = DirectionCall(is_source)

\* C17, amended: with the google provider the first call is the one the
\* resolved direction asks for; with openrouter the first call always goes
\* to the source->target translator, whatever the resolved direction.
C17_FirstCallFollowsDirectionForGoogle ==
    callLog # <<>> =>
        callLog[1] = (IF provider = "openrouter" THEN "forward"
                      ELSE DirectionCall(is_source))

\* C17 witness: google, text not in the source script (hebrew -> english,
\* "hello"): the target->source translator was called first
C17_Witness ==
    /\ provider = "google"
    /\ is_source = "false"
    /\ callLog = <<"reverse">>
    /\ wrote = "ok"

\* C18: with direction AutoDetect, the first (auto -> target) call is followed
\* by exactly one more call (auto -> source) when its result equals the input
\* after trimming and case-folding, and by none when it differs.
C18_AutoDetectRetriesOnNoOp ==
    [][(/\ AtStep("call1")
        /\ callLog = <<>>
        /\ callLog' = <<"auto_to_target">>)
       => (IF SameText(translated', text)
           THEN AtStep("call2")'
           ELSE AtStep("write")')]_vars

\* C19: with the openrouter provider a result that is still a no-op (equal to
\* the input) is never written back before a non-LLM provider was called.
C19_FallbackToSecondaryProvider ==
    (provider = "openrouter" /\ wrote # "no" /\ SameText(translated, text))
    => \E k \in 1..Len(callLog) :
           TranslatorClass(provider, callLog[k]) # "OpenRouterTranslator"

\* C20: a run whose provider call raised still ends with the captured text
\* written to the clipboard and the paste chord injected.
C20_ProviderFailurePastesOriginal ==
    (RunOver /\ failedAt \in {"call1", "call2"})
    => (pasted /\ wrote = "ok")

----------------------------------------------------------------------------
(* Claims about termination and the provider wrappers *)

\* C21: every pipeline run ends, and makes at most three provider calls (an
\* initial call, one opposite-direction retry, one fallback call).
C21_RunTerminatesWithBoundedCalls ==
    /\ [](Len(callLog) <= 3)
    /\ []<>RunOver

\* C21 witness: a run that made the initial call and the retry has ended
C21_Witness ==
    /\ RunOver
    /\ Len(callLog) = 2
    /\ SameText(translated, text)

\* a text that is None, empty, or made of whitespace only
BlankText(v) == v = PyNone \/ \A i \in 1..Len(v.s) : v.s[i] \in Whitespace

\* C22: translate(text) of every wrapper, called with an empty, None or
\* whitespace-only text, returns that text and makes no network call.
C22_BlankInputReturnedWithoutCall ==
    (entry = "wrapper" /\ BlankText(arg)) =>
        /\ netCalls = 0
        /\ wpc \in {"called", "returned"}
        /\ (wpc = "returned" => ret = arg)

\* C22 witness: a whitespace-only text came back from a wrapper
C22_Witness ==
    /\ entry = "wrapper"
    /\ wrapper = "MyMemoryWrapper"
    /\ arg = PyStr(<<" ", " ">>)
    /\ wpc = "returned"
    /\ ret = arg

\* C23: OpenRouterTranslator.translate never raises for a non-empty text.
C23_OpenRouterNeverRaises ==
    (entry = "wrapper" /\ wrapper = "OpenRouterTranslator") => wpc # "raised"

\* C24: load_config never raises; with no file it returns the defaults, with
\* a JSON object the defaults overridden key by key, and with a malformed
\* file (not JSON, or JSON that is not an object) the defaults unchanged.
C24_LoadConfigDefaultsUnlessObject ==
    (entry = "config" /\ cfgpc # "called") =>
        /\ cfgpc = "returned"
        /\ (~cfgFile.exists => config = DEFAULT_CONFIG(cfgImpl))
        /\ (cfgFile.json /\ cfgFile.t = "object" =>
                config = update_mapping(DEFAULT_CONFIG(cfgImpl), cfgFile.obj))
        /\ (cfgFile.exists /\ ~(cfgFile.json /\ cfgFile.t = "object") =>
                config = DEFAULT_CONFIG(cfgImpl))

----------------------------------------------------------------------------
(* Claims about start-up and the devices *)

\* C25: with no keyboard device the Wayland process ends with exit status 1
\* after the diagnostic and starts no monitor thread.
C25_NoKeyboardExitsWithStatusOne ==
    \A p \in Procs :
        (entry = "startup" /\ NO_KEYBOARD \in out[p]) =>
            /\ proc[p] = "exited"
            /\ monitors[p] = {}
            /\ status[p] = 1

\* a Wayland process whose find_devs() has returned
Discovered(p) ==
    /\ entry = "startup"
    /\ script[p] = "wayland"
    /\ proc[p] = "listening" \/ NO_KEYBOARD \in out[p]

\* C27: one physical key press reaches handle() at most once, also when the
\* keyboard shows up as two logical devices.
C27_OnePressHandledOnce ==
    \A p \in Procs : handled[p] <= 1

\* C28, as stated: a device that can be opened is kept exactly when its key
\* capabilities contain every letter A-Z, every digit 0-9 and space.
C28_KeepsDevicesWithAllTypingKeys ==
    \A p \in Procs : Discovered(p) =>
        \A n \in Nodes : inputs[n].readable =>
            (n \in monitors[p] <=>
                (Letters \cup Digits \cup {KEY_SPACE}) \subseteq inputs[n].keys)

\* C28, amended: a device that can be opened is kept exactly when its key
\* capabilities contain KEY_A and KEY_SPACE.
C28_KeepsDevicesWithAAndSpace ==
    \A p \in Procs : Discovered(p) =>
        \A n \in Nodes : inputs[n].readable =>
            (n \in monitors[p] <=> {"KEY_A", KEY_SPACE} \subseteq inputs[n].keys)

\* C28 witness: a device with only KEY_A and KEY_SPACE is monitored
C28_Witness ==
    \E p \in Procs, n \in Nodes :
        /\ Discovered(p)
        /\ n \in monitors[p]
        /\ inputs[n].keys = {"KEY_A", KEY_SPACE}

\* C29: at most one listener process runs at a time.
C29_AtMostOneListener ==
    Cardinality({p \in Procs : proc[p] = "listening"}) <= 1

\* C26: a read error on one device ends the monitor of that device only;
\* it changes neither busy nor last_trigger nor the runs in flight.
C26_ReadErrorEndsOneMonitor ==
    /\ [](\A d \in Devices : pc[d] = "ended" => d \in errors)
    /\ [][errors' # errors =>
            /\ busy' = busy
            /\ last_trigger' = last_trigger
            /\ running' = running
            /\ pressed' = pressed]_vars

\* C26 witness: after the read error of one device, the other device has
\* triggered a run
C26_Witness ==
    /\ entry = "wayland"
    /\ pc["d1"] = "ended"
    /\ pc["d2"] = "read"
    /\ lastAccept > errAt
    /\ running > 0

\* C30: while a run is in flight handle() does not wait for it: at the
\* guard a busy listener returns to reading, and the key-down and key-up
\* events of every device still update the pressed set.
C30_EventsHandledWhileBusy ==
    [][busy =>
        /\ \A d \in Devices :
              (pc[d] = "guard" /\ pc'[d] # "guard") => pc'[d] = "read"
        /\ \A k \in held' \ held : k \in pressed'
        /\ \A k \in held \ held' : k \notin pressed']_vars

\* C30 witness: a key went down during a run and is in the pressed set
C30_Witness ==
    /\ entry = "wayland"
    /\ busy
    /\ running > 0
    /\ pressed # {}

----------------------------------------------------------------------------
(* Claims about the clipboard policy, the providers and the hotkey *)

\* C31: with clear_clipboard_after_paste true (the default) a run that
\* injected paste ends with a clipboard clear, so once the run is over the
\* translated text is no longer on the clipboard.
C31_ClipboardClearedAfterPaste ==
    DEFAULT_CONFIG("shiftlang.config")["clear_clipboard_after_paste"] = "True" =>
        ((RunOver /\ pasted /\ wrote = "ok") => clipboard = "")

C33_ChordNeedsEveryNamedKey ==
    (entry = "wayland" /\ check_hotkey(pressed, hotkey_codes)) =>
        \A i \in 1..Len(hotkey) : PartKeys(hotkey[i]) \cap pressed # {}

\* C34: a rejected chord activation changes neither busy nor last_trigger,
\* starts no thread and leaves the pressed set as the event's own update
\* made it.
C34_RejectionLeavesGuardUnchanged ==
    [][\A d \in Devices :
          (pc[d] = "guard" /\ pc'[d] = "read") =>
              /\ busy' = busy
              /\ last_trigger' = last_trigger
              /\ running' = running
              /\ pressed' = pressed
              /\ tnow' = tnow]_vars

\* C34 witness: an activation was rejected during a run, with the chord held
C34_Witness ==
    /\ entry = "wayland"
    /\ rejHeld
    /\ busy
    /\ \A d \in Devices : pc[d] = "read"

\* C35: for every language name of the script-range table and every text
\* the resolver returns True or False; it never raises.
C35_ResolverTotalOnTable ==
    (/\ entry = "resolver"
     /\ resolved # "pending"
     /\ LookupName(impl, source_language) \in DOMAIN TableOf(impl)) =>
        resolved \in {"true", "false"}

\* C36: the pressed set holds only keys whose latest event was a key-down
\* after the last accepted trigger: a key in it is physically down, a key
\* enters it only by its key-down, a key-up removes it, and an accepted
\* trigger empties it.
C36_PressedIsDownSinceLastTrigger ==
    /\ [](entry = "wayland" => pressed \subseteq held)
    /\ [][/\ pressed' \subseteq pressed \cup (held' \ held)
          /\ \A k \in held \ held' : k \notin pressed'
          /\ running' > running => pressed' = {}]_vars

\* C36 witness: during a run one key is still down from before the trigger
\* and another went down after it
C36_Witness ==
    /\ entry = "wayland"
    /\ running > 0
    /\ pressed # {}
    /\ pressed # held
    /\ \A d \in Devices : pc[d] = "read"

----------------------------------------------------------------------------
(* Claims about the provider tables and the configuration file *)

\* the PROVIDER_INFO items of a lower-case provider id
InfoOf(id) == {PROVIDER_INFO[i] : i \in {j \in 1..Len(PROVIDER_INFO) : PROVIDER_INFO[j][1] = id}}

\* the translator class that serves a provider of PROVIDER_INFO
ClassOf(item) ==
    CASE item[2] = "openrouter" -> "OpenRouterTranslator"
      [] item[2] = "translators" -> "TranslatorsWrapper"
      [] item[1] = "mymemory" -> "MyMemoryWrapper"
      [] OTHER -> "GoogleTranslator"

\* C37: create_translators(config) returns a forward translator for source
\* -> target and a reverse translator for target -> source of the same
\* provider kind, the provider name taken without regard to letter case; a
\* name outside the known set gives Google translators for both directions.
C37_FactoryBuildsBothDirections ==
    (entry = "provider" /\ created.done) =>
        LET f == created.forward
            r == created.reverse
            known == InfoOf(created.provider)
        IN  /\ f.source = pconfig["source_language"]
            /\ f.target = pconfig["target_language"]
            /\ r.source = pconfig["target_language"]
            /\ r.target = pconfig["source_language"]
            /\ f.class = r.class
            /\ \A item \in known : f.class = ClassOf(item)
            /\ known = {} => f.class = "GoogleTranslator"
            /\ configured_provider(pconfig) \in {"OPENROUTER", "openrouter"} =>
                  f.class = "OpenRouterTranslator"

\* C37 witness: the name "OPENROUTER" gave a pair of OpenRouter translators
C37_Witness ==
    /\ entry = "provider"
    /\ created.done
    /\ configured_provider(pconfig) = "OPENROUTER"
    /\ created.forward.class = "OpenRouterTranslator"
    /\ created.reverse.source = "english"

\* C38: a provider name is valid exactly when its lower-case form is a key of
\* PROVIDER_INFO and exactly when the factory has a branch of its own for
\* it; requires_api_key agrees with requires_key of PROVIDER_INFO; and the
\* ids of get_free_providers() are FREE_PROVIDERS.
C38_ProviderTablesAgree ==
    (entry = "provider" /\ created.done /\ queried.done) =>
        LET known == InfoOf(created.provider)
        IN  /\ queried.valid <=> known # {}
            /\ queried.valid <=> ~created.forward.unknown
            /\ \A item \in known : queried.requires_key = item[3]
            /\ queried.free = FREE_PROVIDERS

\* C38 witness: an unknown name is invalid and went to the fallback branch
C38_Witness ==
    /\ entry = "provider"
    /\ created.done
    /\ queried.done
    /\ configured_provider(pconfig) = "deepl"
    /\ ~queried.valid
    /\ created.forward.unknown

=============================================================================
